---- MODULE Spec2Model ----
(***************************************************************************)
(* Multi-method OCR extraction and consensus reconciliation of the TapTap  *)
(* scraper (src/src/utils/advanced_data_extraction.py).                    *)
(*                                                                         *)
(* One region folder is modelled.  An image of the folder is its file name *)
(* (reduced to the processing-method tag the name carries) together with   *)
(* what OpenCV and Tesseract make of it: whether cv2.imread decodes it and *)
(* the mapped record each of the three parsing strategies derives from the *)
(* recognised text.  Python floats are modelled as exact rationals         *)
(* <<numerator, denominator>> in lowest terms.                             *)
(***************************************************************************)
EXTENDS Integers, Sequences, FiniteSets, TLC

VARIABLES
    image_files,          \* os.listdir(region_folder): the candidate images, in listing order
    pc,                   \* position of the analysis: "listed", "skipped", "full_done",
                          \* "opt_loop", "opt_done", "batch_done", "raised"; "cropped",
                          \* "extracted", "analyzed"; "loaded", "processed";
                          \* "debugging", "debugged", "debug_skipped"; "monitoring",
                          \* "monitor_done"
    all_results,          \* analyze_debug_images_consensus: the result entries collected
    results,              \* the value returned: <<>> or <<consensus of the region>>
    sample_size,          \* argument of analyze_debug_images_consensus_optimized
    confidence_threshold, \* argument of analyze_debug_images_consensus_optimized
    selected_files,       \* prioritized_files[:sample_size]
    field_values,         \* _process_images_with_early_termination: field -> list of values
    images_processed,     \* _process_images_with_early_termination: counter
    extracted,            \* the images on which extraction has been run, in order
    other_files,          \* the listing of the other analysis a result is compared with
    other_results,        \* the value that other analysis returned
    cropped_files,        \* images/<screenshot>_<region>_cropped.png: region -> the crop
    extracted_data,       \* extract_latest_data_only: the records returned
    consensus_results,    \* run_consensus_on_latest_images: the value returned
    input_image,          \* the argument of process_image_optimized
    processed_images,     \* process_image_optimized: the dict returned, as its keys in order
    image_path,           \* debug_single_image: the cropped image handed to the debug tool
    debug_folder,         \* debug_images/: the files written, each with the image it holds
    iteration,            \* run_continuous_monitoring: the iteration counter
    performance_data,     \* run_continuous_monitoring: iterations, errors, total_captures
    browser               \* run_continuous_monitoring: "open" or "closed"

\* the state of the debug-folder analyses, pc apart
analysis_vars == <<image_files, all_results, results, sample_size, confidence_threshold,
                   selected_files, field_values, images_processed, extracted,
                   other_files, other_results>>

\* the state of the monitoring path and of the image processors
monitoring_vars == <<cropped_files, extracted_data, consensus_results, input_image,
                     processed_images>>

\* the state of the debug tool
debug_vars == <<image_path, debug_folder>>

\* the state of the monitoring loop
loop_vars == <<iteration, performance_data, browser>>

vars == <<pc, analysis_vars, monitoring_vars, debug_vars, loop_vars>>

(***************************************************************************)
(* Bounds of the model.                                                    *)
(***************************************************************************)
MaxImages == 2
MaxSample == 2
MaxPieces == 3

(***************************************************************************)
(* Generic helpers.                                                        *)
(***************************************************************************)
Range(s) == {s[i] : i \in 1..Len(s)}

RECURSIVE GCD(_, _)
GCD(a, b) == IF b = 0 THEN a ELSE GCD(b, a % b)

\* The rational n/d (d > 0) in lowest terms.
Rat(n, d) == LET g == GCD(n, d) IN IF n = 0 THEN <<0, 1>> ELSE <<n \div g, d \div g>>
RatAdd(x, y) == Rat(x[1] * y[2] + y[1] * x[2], x[2] * y[2])
RatDiv(x, k) == Rat(x[1], x[2] * k)
RatLess(x, y) == x[1] * y[2] < y[1] * x[2]
RatGeq(x, y) == x[1] * y[2] >= y[1] * x[2]

RECURSIVE RatSum(_)
RatSum(s) == IF s = <<>> THEN <<0, 1>> ELSE RatAdd(s[1], RatSum(Tail(s)))

RECURSIVE Flatten(_)
Flatten(ss) == IF ss = <<>> THEN <<>> ELSE ss[1] \o Flatten(Tail(ss))

\* dict.get(key, '')
DictGet(d, key) == IF key \in DOMAIN d THEN d[key] ELSE ""

\* the empty dict {}
EmptyDict == [k \in {} |-> ""]

(***************************************************************************)
(* TapTapDataExtractor.__init__                                            *)
(***************************************************************************)
fields == <<"b_value", "s_value", "t_value", "people_count", "dollar_amount">>
FieldSet == Range(fields)

\* the strategy keys of a result entry, in the order the code iterates them
methods == <<"v2", "v3", "v4">>
MethodSet == Range(methods)

(***************************************************************************)
(* The mapped records a strategy can derive from a recognised text.        *)
(***************************************************************************)
Mapped(b, s, t, p, d) ==
    [b_value |-> b, s_value |-> s, t_value |-> t, people_count |-> p, dollar_amount |-> d]

ParsedText ==
    [E |-> Mapped("", "", "", "", ""),
     A |-> Mapped("12", "34", "56", "123", "1,234"),
     B |-> Mapped("21", "34", "", "123", ""),
     C |-> Mapped("", "43", "56", "", "1,234")]

\* file names, reduced to the processing-method tag they contain
Filenames == {"adaptive_binarized", "gaussian_blur", "processed_17", "otsu_binarized"}

Image(f, r, o) == [file |-> f, readable |-> r, ocr |-> o]

\* what the three strategies read from the images of a monitored region folder
RegionOcr == {<<"A", "A", "A">>, <<"A", "A", "B">>, <<"E", "B", "E">>,
              <<"A", "E", "E">>, <<"B", "E", "A">>}

RegionImages ==
    {Image(f, TRUE, o) : f \in Filenames, o \in RegionOcr}
      \cup {Image(f, FALSE, <<"E", "E", "E">>) : f \in Filenames}

\* every triple of mapped records, for the single-image extraction
AnyImages ==
    {Image(f, TRUE, <<a, b, c>>) : f \in {"gaussian_blur"},
                                   a \in DOMAIN ParsedText, b \in DOMAIN ParsedText,
                                   c \in DOMAIN ParsedText}
      \cup {Image("gaussian_blur", FALSE, <<"E", "E", "E">>)}

\* the listings of a folder: sequences of at most n images with pairwise
\* distinct file names, in any order (os.listdir promises none)
RECURSIVE Listings(_, _)
Listings(images, n) ==
    IF n = 0 THEN {<<>>}
    ELSE LET shorter == Listings(images, n - 1)
         IN  shorter \cup
             {Append(l, im) : <<l, im>> \in
                 {<<x, y>> \in shorter \X images :
                     Len(x) = n - 1 /\ \A i \in 1..Len(x) : x[i].file # y.file}}

(***************************************************************************)
(* Recognised text, for the images whose text the strategies parse: a      *)
(* sequence of characters.  The regular expressions of the strategies are  *)
(* sequences of atoms: the assertion \b, or a unit (a sequence of          *)
(* character classes) repeated greedily between min and max times, max     *)
(* being ignored when star is set.  An atom with cap set lies in group 1   *)
(* (in the whole match, for the patterns of re.findall that have no        *)
(* group).                                                                  *)
(***************************************************************************)
Digit == {"0", "1", "2", "3", "4", "5", "6", "7", "8", "9"}
Letter == {"B", "S", "T", "O", "o"}
\* \w and \s, over the characters the texts of the model are made of
WordChar == Digit \cup Letter
Whitespace == {" ", "\n"}

WB == [wb |-> TRUE, unit |-> <<>>, min |-> 0, max |-> 0, star |-> FALSE, cap |-> FALSE]
Rep(unit, min, max, cap) ==
    [wb |-> FALSE, unit |-> unit, min |-> min, max |-> max, star |-> FALSE, cap |-> cap]
RepStar(unit, min, cap) ==
    [wb |-> FALSE, unit |-> unit, min |-> min, max |-> min, star |-> TRUE, cap |-> cap]

NoMatch == [ok |-> FALSE, start |-> 0, end |-> 0, group |-> <<>>]

\* \b at the position before text[pos]
WordBoundary(text, pos) ==
    LET IsWord(i) == i >= 1 /\ i <= Len(text) /\ text[i] \in WordChar
    IN  IsWord(pos - 1) # IsWord(pos)

\* the match of atoms k, k + 1, ... that starts at text[pos], as a backtracking
\* matcher finds it: each atom takes the longest repetition the rest can follow
RECURSIVE MatchAt(_, _, _, _)
MatchAt(text, atoms, k, pos) ==
    IF k > Len(atoms)
    THEN [ok |-> TRUE, start |-> pos, end |-> pos, group |-> <<>>]
    ELSE LET Repeated(a, u, room) ==
                 LET most == IF a.star \/ room < a.max THEN room ELSE a.max
                     Fits(c) == \A i \in 0..(c * u - 1) : text[pos + i] \in a.unit[(i % u) + 1]
                     rest(c) == MatchAt(text, atoms, k + 1, pos + c * u)
                     Taking(c, r) ==
                         [ok |-> TRUE, start |-> pos, end |-> r.end,
                          group |-> (IF a.cap THEN SubSeq(text, pos, pos + c * u - 1)
                                     ELSE <<>>) \o r.group]
                     Longest(counts) ==
                         IF counts = {} THEN NoMatch
                         ELSE LET c == CHOOSE n \in counts : \A m \in counts : m <= n
                              IN  Taking(c, rest(c))
                 IN  Longest({c \in a.min..most : Fits(c) /\ rest(c).ok})
         IN  IF atoms[k].wb
             THEN IF WordBoundary(text, pos) THEN MatchAt(text, atoms, k + 1, pos)
                  ELSE NoMatch
             ELSE Repeated(atoms[k], Len(atoms[k].unit),
                           (Len(text) - pos + 1) \div Len(atoms[k].unit))

\* re.search from text[from] on: the leftmost match
SearchFrom(text, atoms, from) ==
    LET Leftmost(starts) ==
            IF starts = {} THEN NoMatch
            ELSE MatchAt(text, atoms, 1, CHOOSE p \in starts : \A q \in starts : p <= q)
    IN  Leftmost({p \in from..Len(text) : MatchAt(text, atoms, 1, p).ok})

re_search(atoms, text) == SearchFrom(text, atoms, 1)

\* re.findall: the matches from left to right, none overlapping the one before
RECURSIVE FindAllFrom(_, _, _)
FindAllFrom(text, atoms, from) ==
    LET Found(m) == IF ~m.ok THEN <<>> ELSE <<m.group>> \o FindAllFrom(text, atoms, m.end)
    IN  Found(SearchFrom(text, atoms, from))

re_findall(atoms, text) == FindAllFrom(text, atoms, 1)

\* match.group(1) if match else ''
GroupOrEmpty(m) == IF m.ok THEN m.group ELSE <<>>

\* the Python string of a sequence of characters
RECURSIVE Str(_)
Str(chars) == IF chars = <<>> THEN "" ELSE chars[1] \o Str(Tail(chars))

\* str.strip()
RECURSIVE strip(_)
strip(text) ==
    IF text = <<>> THEN <<>>
    ELSE IF text[1] \in Whitespace THEN strip(Tail(text))
    ELSE IF text[Len(text)] \in Whitespace THEN strip(SubSeq(text, 1, Len(text) - 1))
    ELSE text

\* str.split('\n')
RECURSIVE split_lines(_)
split_lines(text) ==
    LET breaks == {i \in 1..Len(text) : text[i] = "\n"}
    IN  IF breaks = {} THEN <<text>>
        ELSE LET i == CHOOSE b \in breaks : \A c \in breaks : b <= c
             IN  <<SubSeq(text, 1, i - 1)>> \o split_lines(SubSeq(text, i + 1, Len(text)))

\* the first line of lines on which one of the patterns matches, and on it the
\* first of the patterns that matches: its group 1, '' if there is none
RECURSIVE FirstLabelled(_, _)
FirstLabelled(lines, patterns) ==
    IF lines = <<>> THEN <<>>
    ELSE LET FirstOf(hits) ==
                 IF hits = {} THEN FirstLabelled(Tail(lines), patterns)
                 ELSE re_search(patterns[CHOOSE k \in hits : \A j \in hits : k <= j],
                                lines[1]).group
         IN  FirstOf({k \in 1..Len(patterns) : re_search(patterns[k], lines[1]).ok})

(***************************************************************************)
(* extract_lisa_data_v2 on the recognised text (Method A)                  *)
(***************************************************************************)
\* r'\d{1,3}(?:,\d{3})+'
numbers_with_commas_pattern ==
    <<Rep(<<Digit>>, 1, 3, TRUE), RepStar(<<{","}, Digit, Digit, Digit>>, 1, TRUE)>>

runs_of_up_to_three_pattern == <<Rep(<<Digit>>, 1, 3, TRUE)>>

\* r'\d+'
all_numbers_pattern == <<RepStar(<<Digit>>, 1, TRUE)>>

\* r'[@#oO§© ]?(\d{3})\b'
people_count_pattern ==
    <<Rep(<<{"@", "#", "o", "O", "§", "©", " "}>>, 0, 1, FALSE),
      Rep(<<Digit>>, 3, 3, TRUE), WB>>

extract_numbers_with_commas(text) == re_findall(numbers_with_commas_pattern, text)

extract_all_numbers(text) == re_findall(all_numbers_pattern, text)

RECURSIVE FirstPeopleCount(_)
FirstPeopleCount(lines) ==
    IF lines = <<>> THEN <<>>
    ELSE LET OnLine(match) ==
                 IF match.ok THEN match.group ELSE FirstPeopleCount(Tail(lines))
         IN  OnLine(re_search(people_count_pattern, lines[1]))

extract_people_count(text) == FirstPeopleCount(split_lines(text))

\* all_numbers[i] of the code, i counted from 0
Item(all_numbers, i) == all_numbers[i + 1]

positional_v2_last(all_numbers) ==
    LET three == {i \in 0..(Len(all_numbers) - 1) : Len(Item(all_numbers, i)) = 3}
        p_idx == CHOOSE i \in three : \A j \in three : j <= i
    IN  IF Len(all_numbers) >= 3
        THEN IF three # {}
             THEN [b_val |-> IF p_idx >= 2 THEN Item(all_numbers, p_idx - 2) ELSE <<>>,
                   s_val |-> IF p_idx >= 1 THEN Item(all_numbers, p_idx - 1) ELSE <<>>,
                   t_val |-> IF p_idx + 1 < Len(all_numbers)
                             THEN Item(all_numbers, p_idx + 1) ELSE <<>>]
             ELSE [b_val |-> Item(all_numbers, 0),
                   s_val |-> IF Len(all_numbers) > 1 THEN Item(all_numbers, 1) ELSE <<>>,
                   t_val |-> IF Len(all_numbers) > 2 THEN Item(all_numbers, 2) ELSE <<>>]
        ELSE [b_val |-> <<>>, s_val |-> <<>>, t_val |-> <<>>]

\* as positional_v2, but nothing is read when no token has three digits
positional_v2_pivot_only(all_numbers) ==
    LET three == {i \in 0..(Len(all_numbers) - 1) : Len(Item(all_numbers, i)) = 3}
        p_idx == CHOOSE i \in three : \A j \in three : i <= j
    IN  IF Len(all_numbers) >= 3 /\ three # {}
        THEN [b_val |-> IF p_idx >= 2 THEN Item(all_numbers, p_idx - 2) ELSE <<>>,
              s_val |-> IF p_idx >= 1 THEN Item(all_numbers, p_idx - 1) ELSE <<>>,
              t_val |-> IF p_idx + 1 < Len(all_numbers)
                        THEN Item(all_numbers, p_idx + 1) ELSE <<>>]
        ELSE [b_val |-> <<>>, s_val |-> <<>>, t_val |-> <<>>]

\* the b, s and t values of lines 61-73
positional_v2(all_numbers) ==
    LET three == {i \in 0..(Len(all_numbers) - 1) : Len(Item(all_numbers, i)) = 3}
        p_idx == CHOOSE i \in three : \A j \in three : i <= j
    IN  IF Len(all_numbers) >= 3
        THEN IF three # {}
             THEN [b_val |-> IF p_idx >= 2 THEN Item(all_numbers, p_idx - 2) ELSE <<>>,
                   s_val |-> IF p_idx >= 1 THEN Item(all_numbers, p_idx - 1) ELSE <<>>,
                   t_val |-> IF p_idx + 1 < Len(all_numbers)
                             THEN Item(all_numbers, p_idx + 1) ELSE <<>>]
             ELSE [b_val |-> Item(all_numbers, 0),
                   s_val |-> IF Len(all_numbers) > 1 THEN Item(all_numbers, 1) ELSE <<>>,
                   t_val |-> IF Len(all_numbers) > 2 THEN Item(all_numbers, 2) ELSE <<>>]
        ELSE [b_val |-> <<>>, s_val |-> <<>>, t_val |-> <<>>]

lisa_data_v2(text_all) ==
    LET mapped_result(numbers_with_commas, bst, people) ==
            Mapped(Str(bst.b_val), Str(bst.s_val), Str(bst.t_val), Str(people),
                   IF numbers_with_commas # <<>> THEN Str(numbers_with_commas[1]) ELSE "")
    IN  mapped_result(extract_numbers_with_commas(text_all),
                      positional_v2(extract_all_numbers(text_all)),
                      extract_people_count(text_all))

(***************************************************************************)
(* extract_game_stat_v3 on the recognised text (Method B)                  *)
(***************************************************************************)
\* the first pattern if it matches, else the additional one
SearchWithFallback(pattern, additional, text) ==
    LET OrElse(match) == IF match.ok THEN match ELSE re_search(additional, text)
    IN  OrElse(re_search(pattern, text))

game_stat_v3(text_all) ==
    LET b_match == SearchWithFallback(
                       \* r'\bB\s?(\d{1,3})', r'B(\d{1,3})'
                       <<WB, Rep(<<{"B"}>>, 1, 1, FALSE), Rep(<<Whitespace>>, 0, 1, FALSE),
                         Rep(<<Digit>>, 1, 3, TRUE)>>,
                       <<Rep(<<{"B"}>>, 1, 1, FALSE), Rep(<<Digit>>, 1, 3, TRUE)>>,
                       text_all)
        s_match == SearchWithFallback(
                       \* r'\bS\s?(\d{1,3})', r'S(\d{1,3})'
                       <<WB, Rep(<<{"S"}>>, 1, 1, FALSE), Rep(<<Whitespace>>, 0, 1, FALSE),
                         Rep(<<Digit>>, 1, 3, TRUE)>>,
                       <<Rep(<<{"S"}>>, 1, 1, FALSE), Rep(<<Digit>>, 1, 3, TRUE)>>,
                       text_all)
        t_match == SearchWithFallback(
                       \* r'[○@\*oO\)§©]\s?(\d{1,3})', r'[T@](\d{1,3})'
                       <<Rep(<<{"○", "@", "*", "o", "O", ")", "§", "©"}>>, 1, 1, FALSE),
                         Rep(<<Whitespace>>, 0, 1, FALSE), Rep(<<Digit>>, 1, 3, TRUE)>>,
                       <<Rep(<<{"T", "@"}>>, 1, 1, FALSE), Rep(<<Digit>>, 1, 3, TRUE)>>,
                       text_all)
        p_match == SearchWithFallback(
                       \* r'[<U+1F465>#@§© ](\d{3})\b', r'(\d{3})'
                       <<Rep(<<{"U+1F465", "#", "@", "§", "©", " "}>>, 1, 1, FALSE),
                         Rep(<<Digit>>, 3, 3, TRUE), WB>>,
                       <<Rep(<<Digit>>, 3, 3, TRUE)>>,
                       text_all)
        dollar_match == SearchWithFallback(
                       \* r'\$\s?(\d{1,3}(?:,\d{3})+)', r'(\d{1,3}(?:,\d{3})+)'
                       <<Rep(<<{"$"}>>, 1, 1, FALSE), Rep(<<Whitespace>>, 0, 1, FALSE)>>
                           \o numbers_with_commas_pattern,
                       numbers_with_commas_pattern,
                       text_all)
    IN  Mapped(Str(GroupOrEmpty(b_match)), Str(GroupOrEmpty(s_match)),
               Str(GroupOrEmpty(t_match)), Str(GroupOrEmpty(p_match)),
               Str(GroupOrEmpty(dollar_match)))

(***************************************************************************)
(* extract_stat_v4 on the recognised text (Method C)                       *)
(***************************************************************************)
\* [r'X(\d{1,3})', r'\b(\d{1,3})\s*X', r'X\s*(\d{1,3})'] for the label class X
label_patterns(label) ==
    <<<<Rep(<<label>>, 1, 1, FALSE), Rep(<<Digit>>, 1, 3, TRUE)>>,
      <<WB, Rep(<<Digit>>, 1, 3, TRUE), RepStar(<<Whitespace>>, 0, FALSE),
        Rep(<<label>>, 1, 1, FALSE)>>,
      <<Rep(<<label>>, 1, 1, FALSE), RepStar(<<Whitespace>>, 0, FALSE),
        Rep(<<Digit>>, 1, 3, TRUE)>>>>

b_patterns == label_patterns({"B"})
s_patterns == label_patterns({"S"})
t_patterns == label_patterns({"T", "@", "§", "©"})

\* len(num) == 3 and 100 <= int(num) <= 999
IsPeopleCount(num) == Len(num) = 3 /\ num[1] # "0"

\* the b, s and t values after lines 193-204, from those of the label scan
positional_only_without_b(all_numbers, people_count, b_value, s_value, t_value) ==
    LET found == {i \in 0..(Len(all_numbers) - 1) : Item(all_numbers, i) = people_count}
        p_idx == CHOOSE i \in found : \A j \in found : i <= j
    IN  IF b_value = <<>> /\ Len(all_numbers) >= 3 /\ found # {}
        THEN [b_value |-> IF p_idx >= 2 THEN Item(all_numbers, p_idx - 2) ELSE b_value,
              s_value |-> IF p_idx >= 1 THEN Item(all_numbers, p_idx - 1) ELSE s_value,
              t_value |-> IF p_idx + 1 < Len(all_numbers)
                          THEN Item(all_numbers, p_idx + 1) ELSE t_value]
        ELSE [b_value |-> b_value, s_value |-> s_value, t_value |-> t_value]

stat_v4(text_all) ==
    LET mapped_result(bst, people_count, dollar_amount) ==
            Mapped(Str(bst.b_value), Str(bst.s_value), Str(bst.t_value), Str(people_count),
                   Str(dollar_amount))
        first_people_count(all_numbers, candidates) ==
            IF candidates = {} THEN <<>>
            ELSE all_numbers[CHOOSE i \in candidates : \A j \in candidates : i <= j]
        parsed(all_numbers, numbers_with_commas, lines) ==
            LET people_count(found) == first_people_count(all_numbers, found)
                people == people_count({i \in 1..Len(all_numbers) :
                                           IsPeopleCount(all_numbers[i])})
            IN  mapped_result(positional_only_without_b(all_numbers, people,
                                                        FirstLabelled(lines, b_patterns),
                                                        FirstLabelled(lines, s_patterns),
                                                        FirstLabelled(lines, t_patterns)),
                              people,
                              IF numbers_with_commas # <<>> THEN numbers_with_commas[1]
                              ELSE <<>>)
    IN  parsed(re_findall(all_numbers_pattern, text_all),
               re_findall(numbers_with_commas_pattern, text_all),
               split_lines(text_all))

(***************************************************************************)
(* The three extraction strategies, from the image to the result dict.     *)
(***************************************************************************)
ErrorResult == [error |-> "Cannot read image"]

\* an image on which pytesseract.image_to_string raises carries this key in
\* place of a recognised text; the call then ends with the exception
OcrFailure == "X"
OcrException == [exception |-> "TesseractError"]

\* an image whose recognised text is given carries this key in place of the keys
\* of parsed records, and the text the three OCR calls return
TextKey == "T"
TextImage(f, text) ==
    [file |-> f, readable |-> TRUE, ocr |-> <<TextKey, TextKey, TextKey>>, text |-> text]

extract_lisa_data_v2(image) ==
    IF ~image.readable THEN ErrorResult
    ELSE IF image.ocr[1] = OcrFailure THEN OcrException
    ELSE IF image.ocr[1] = TextKey
    THEN [raw_text |-> Str(strip(image.text)), mapped_result |-> lisa_data_v2(image.text)]
    ELSE [raw_text |-> image.ocr[1], mapped_result |-> ParsedText[image.ocr[1]]]

extract_game_stat_v3(image) ==
    IF ~image.readable THEN ErrorResult
    ELSE IF image.ocr[2] = OcrFailure THEN OcrException
    ELSE IF image.ocr[2] = TextKey
    THEN [raw_text |-> Str(strip(image.text)),
          mapped_result |-> game_stat_v3(strip(image.text))]
    ELSE [raw_text |-> image.ocr[2], mapped_result |-> ParsedText[image.ocr[2]]]

extract_stat_v4(image) ==
    IF ~image.readable THEN ErrorResult
    ELSE IF image.ocr[3] = OcrFailure THEN OcrException
    ELSE IF image.ocr[3] = TextKey
    THEN [raw_text |-> Str(strip(image.text)), mapped_result |-> stat_v4(strip(image.text))]
    ELSE [raw_text |-> image.ocr[3], mapped_result |-> ParsedText[image.ocr[3]]]

\* result.get('mapped_result', {})
MappedResult(result) ==
    IF "mapped_result" \in DOMAIN result THEN result.mapped_result ELSE EmptyDict

(***************************************************************************)
(* TapTapDataExtractor.extract_stat_combined: per field v4, else v3, else  *)
(* v2.  Indexing ["mapped_result"] of an error result raises KeyError.     *)
(***************************************************************************)
MergeRev(val_v2, val_v3, val_v4) ==
    IF val_v2 # "" THEN val_v2 ELSE (IF val_v3 # "" THEN val_v3 ELSE val_v4)

Merge(val_v2, val_v3, val_v4) ==
    IF val_v4 # "" THEN val_v4 ELSE (IF val_v3 # "" THEN val_v3 ELSE val_v2)

extract_stat_combined(image) ==
    LET combined(result_v2, result_v3, result_v4) ==
            IF "exception" \in DOMAIN result_v2 THEN result_v2
            ELSE IF "exception" \in DOMAIN result_v3 THEN result_v3
            ELSE IF "exception" \in DOMAIN result_v4 THEN result_v4
            ELSE IF "mapped_result" \notin DOMAIN result_v4
               \/ "mapped_result" \notin DOMAIN result_v3
               \/ "mapped_result" \notin DOMAIN result_v2
            THEN [exception |-> "KeyError"]
            ELSE [file |-> image.file,
                  final_result |->
                      [key \in FieldSet |->
                          Merge(DictGet(result_v2.mapped_result, key),
                                DictGet(result_v3.mapped_result, key),
                                DictGet(result_v4.mapped_result, key))],
                  v2_result |-> result_v2.mapped_result,
                  v3_result |-> result_v3.mapped_result,
                  v4_result |-> result_v4.mapped_result]
    IN  combined(extract_lisa_data_v2(image), extract_game_stat_v3(image),
                 extract_stat_v4(image))

Raised(r) == "exception" \in DOMAIN r

\* one of the three strategy calls on the image ends with an exception
ExtractionRaises(image) ==
    \/ Raised(extract_lisa_data_v2(image))
    \/ Raised(extract_game_stat_v3(image))
    \/ Raised(extract_stat_v4(image))

(***************************************************************************)
(* collections.Counter(values).most_common(1)[0]: the value with the       *)
(* highest count; among equal counts the one inserted first, i.e. the one  *)
(* whose first occurrence in values comes first.                           *)
(***************************************************************************)
CountOf(values, v) == Cardinality({i \in 1..Len(values) : values[i] = v})

FirstIndexOfMax(values) ==
    CHOOSE i \in 1..Len(values) :
        /\ \A j \in 1..Len(values) : CountOf(values, values[j]) <= CountOf(values, values[i])
        /\ \A j \in 1..(i - 1) : CountOf(values, values[j]) < CountOf(values, values[i])

first_value(values) == <<values[1], CountOf(values, values[1])>>

most_common(values) ==
    LET i == FirstIndexOfMax(values)
    IN  <<values[i], CountOf(values, values[i])>>

(***************************************************************************)
(* ConsensusAnalyzer.analyze_debug_images_consensus: one result entry.     *)
(***************************************************************************)
result_entry(image) ==
    [file |-> image.file,
     v2 |-> MappedResult(extract_lisa_data_v2(image)),
     v3 |-> MappedResult(extract_game_stat_v3(image)),
     v4 |-> MappedResult(extract_stat_v4(image))]

collect_all_results_kept(previous, files) ==
    previous \o [i \in 1..Len(files) |-> result_entry(files[i])]

\* all_results = [] for the region, then one entry appended per image
collect_all_results(previous, files) ==
    [i \in 1..Len(files) |-> result_entry(files[i])]

(***************************************************************************)
(* ConsensusAnalyzer._find_consensus                                       *)
(***************************************************************************)
MethodFieldValuesUnfiltered(entries, field, method) ==
    [i \in 1..Len(entries) |-> DictGet(entries[i][method], field)]

MethodFieldValuesShared(entries, field, method) ==
    LET vals == [i \in 1..Len(entries) |-> DictGet(entries[i][method], fields[1])]
    IN  SelectSeq(vals, LAMBDA v : v # "")

\* field_values[field][method]: the non-empty values, in the order of all_results
MethodFieldValues(entries, field, method) ==
    LET vals == [i \in 1..Len(entries) |-> DictGet(entries[i][method], field)]
    IN  SelectSeq(vals, LAMBDA v : v # "")

AllValuesByImage(entries, field) ==
    Flatten([i \in 1..Len(entries) |->
                SelectSeq([m \in 1..Len(methods) |-> DictGet(entries[i][methods[m]], field)],
                          LAMBDA v : v # "")])

\* all_values of a field: v2's list, then v3's, then v4's
AllValues(entries, field) ==
    Flatten([m \in 1..Len(methods) |-> MethodFieldValues(entries, field, methods[m])])

FieldConsensusNumeral(values) ==
    IF values # <<>>
    THEN LET mc == most_common(values)
         IN  [value |-> mc[1], confidence |-> Rat(mc[2] * 100, Len(values)),
              count |-> mc[2], total |-> Len(values)]
    ELSE [value |-> "0", confidence |-> <<0, 1>>, count |-> 0, total |-> 0]

\* the four entries of the consensus dict that belong to one field
FieldConsensus(values) ==
    IF values # <<>>
    THEN LET mc == most_common(values)
             total_count == Len(values)
         IN  [value |-> mc[1],
              confidence |-> Rat(mc[2] * 100, total_count),
              count |-> mc[2],
              total |-> total_count]
    ELSE [value |-> "", confidence |-> <<0, 1>>, count |-> 0, total |-> 0]

OverallConfidenceNonEmpty(per_field) ==
    LET found == Cardinality({f \in FieldSet : per_field[f].total > 0})
    IN  IF found = 0 THEN <<0, 1>>
        ELSE RatDiv(RatSum([i \in 1..Len(fields) |-> per_field[fields[i]].confidence]), found)

\* sum(consensus[f'{field}_confidence'] for field in self.fields) / len(self.fields)
OverallConfidence(per_field) ==
    RatDiv(RatSum([i \in 1..Len(fields) |-> per_field[fields[i]].confidence]), Len(fields))

\* method_scores[method]
method_score(entries, method) ==
    LET contributed == {f \in FieldSet : MethodFieldValues(entries, f, method) # <<>>}
        score == Len(Flatten([i \in 1..Len(fields) |->
                                  MethodFieldValues(entries, fields[i], method)]))
    IN  IF contributed # {} THEN Rat(score, Cardinality(contributed)) ELSE <<0, 1>>

best_method_default(entries) == "v3"

\* max(method_scores, key=method_scores.get): the first key of maximal score
best_method(entries) ==
    LET i == CHOOSE i \in 1..Len(methods) :
                 /\ \A j \in 1..Len(methods) :
                        ~RatLess(method_score(entries, methods[i]),
                                 method_score(entries, methods[j]))
                 /\ \A j \in 1..(i - 1) :
                        RatLess(method_score(entries, methods[j]),
                                method_score(entries, methods[i]))
    IN  methods[i]

find_consensus(entries) ==
    LET per_field == [f \in FieldSet |-> FieldConsensus(AllValues(entries, f))]
    IN  [field |-> per_field,
         best_method |-> best_method(entries),
         confidence |-> OverallConfidence(per_field)]

(***************************************************************************)
(* OptimizedConsensusAnalyzer                                              *)
(***************************************************************************)
\* self.method_priority, in insertion order (the other entries are commented out)
method_priority ==
    <<[method |-> "adaptive_binarized", priority |-> 5],
      [method |-> "gaussian_blur", priority |-> 17],
      [method |-> "processed_17", priority |-> 19]>>

\* `method in filename`, the file name being reduced to the tag it carries
InFilename(method, filename) == filename = method

get_priority_unknown_first(filename) ==
    LET hits == {i \in 1..Len(method_priority) :
                     InFilename(method_priority[i].method, filename)}
    IN  IF hits # {}
        THEN method_priority[CHOOSE i \in hits : \A j \in hits : i <= j].priority
        ELSE 0

get_priority(filename) ==
    LET hits == {i \in 1..Len(method_priority) :
                     InFilename(method_priority[i].method, filename)}
    IN  IF hits # {}
        THEN method_priority[CHOOSE i \in hits : \A j \in hits : i <= j].priority
        ELSE 999

\* sorted(image_files, key=get_priority): stable
prioritize_images_by_method(files) ==
    LET Before(j, i) ==
            \/ get_priority(files[j].file) < get_priority(files[i].file)
            \/ get_priority(files[j].file) = get_priority(files[i].file) /\ j < i
        Rank(i) == Cardinality({j \in 1..Len(files) : Before(j, i)}) + 1
    IN  [k \in 1..Len(files) |-> files[CHOOSE i \in 1..Len(files) : Rank(i) = k]]

TopSliceInclusive(files, n) ==
    SubSeq(files, 1, IF n + 1 < Len(files) THEN n + 1 ELSE Len(files))

\* prioritized_files[:sample_size], sample_size > 0
TopSlice(files, n) == SubSeq(files, 1, IF n < Len(files) THEN n ELSE Len(files))

\* the values one image adds to field_values[field]: v2's, v3's, v4's, non-empty only
ImageValues(image, field) ==
    LET method_results == <<extract_lisa_data_v2(image), extract_game_stat_v3(image),
                            extract_stat_v4(image)>>
        vals == [m \in 1..3 |-> DictGet(MappedResult(method_results[m]), field)]
    IN  SelectSeq(vals, LAMBDA v : v # "")

CollectOverwrite(fv, image) == [f \in FieldSet |-> ImageValues(image, f)]

Collect(fv, image) == [f \in FieldSet |-> fv[f] \o ImageValues(image, f)]

\* defaultdict(list) with no key yet
NoValues == [f \in FieldSet |-> <<>>]

calculate_current_confidence(fv) ==
    IF \A f \in FieldSet : fv[f] = <<>>
    THEN <<0, 1>>
    ELSE LET field_confidence(f) ==
                 IF fv[f] # <<>>
                 THEN Rat(most_common(fv[f])[2] * 100, Len(fv[f]))
                 ELSE <<0, 1>>
         IN  RatDiv(RatSum([i \in 1..Len(fields) |-> field_confidence(fields[i])]),
                    Len(fields))

ValuesConsensus(values) ==
    IF values # <<>>
    THEN LET mc == most_common(values)
             total_count == Len(values)
         IN  [value |-> mc[1],
              confidence |-> Rat(mc[2] * 100, total_count),
              count |-> mc[2],
              total |-> total_count]
    ELSE [value |-> "", confidence |-> <<0, 1>>, count |-> 0, total |-> 0]

OptimizedBestMethodFirst(fv) == methods[1]

\* consensus['best_method'] = 'v3'
OptimizedBestMethod(fv) == "v3"

OptimizedOverall(per_field) ==
    RatDiv(RatSum([i \in 1..Len(fields) |-> per_field[fields[i]].confidence]), Len(fields))

calculate_consensus_from_values(fv) ==
    LET per_field == [f \in FieldSet |-> ValuesConsensus(fv[f])]
    IN  [field |-> per_field,
         best_method |-> OptimizedBestMethod(fv),
         confidence |-> OptimizedOverall(per_field)]

\* consensus['images_processed'] = images_processed
WithImagesProcessed(consensus, n) ==
    [field |-> consensus.field,
     best_method |-> consensus.best_method,
     confidence |-> consensus.confidence,
     images_processed |-> n]

ThresholdReachedBelow(current_confidence, threshold) ==
    RatGeq(<<threshold, 1>>, current_confidence)

\* current_confidence >= confidence_threshold
ThresholdReached(current_confidence, threshold) ==
    RatGeq(current_confidence, <<threshold, 1>>)

(***************************************************************************)
(* The state machine.                                                      *)
(***************************************************************************)
SampleSizes == 1..MaxSample
Thresholds == {50, 80}

Idle ==
    /\ pc = "listed"
    /\ all_results = <<>>
    /\ results = <<>>
    /\ sample_size = 0
    /\ confidence_threshold = 0
    /\ selected_files = <<>>
    /\ field_values = NoValues
    /\ images_processed = 0
    /\ extracted = <<>>

\* no other analysis to compare with
Alone ==
    /\ other_files = <<>>
    /\ other_results = <<>>

\* no monitoring pass and no image processing under way
NotMonitoring ==
    /\ cropped_files = <<>>
    /\ extracted_data = <<>>
    /\ consensus_results = <<>>
    /\ input_image = <<>>
    /\ processed_images = <<>>

\* the debug tool has not run
NotDebugging ==
    /\ image_path = <<>>
    /\ debug_folder = {}

\* the monitoring loop has not run
NotLooping ==
    /\ iteration = 0
    /\ performance_data = <<>>
    /\ browser = "none"

\* a region folder as the monitoring run left it
Init ==
    /\ image_files \in Listings(RegionImages, MaxImages)
    /\ Idle
    /\ Alone
    /\ NotMonitoring
    /\ NotDebugging
    /\ NotLooping

\* a folder holding one image, any outcome of the three strategies
InitCombined ==
    /\ image_files \in {<<im>> : im \in AnyImages}
    /\ Idle
    /\ Alone
    /\ NotMonitoring
    /\ NotDebugging
    /\ NotLooping

\* ConsensusAnalyzer.analyze_debug_images_consensus, for the region.  Nothing in
\* the loop catches an exception of a strategy call: it ends the analysis.
AnalyzeFull ==
    /\ pc = "listed"
    /\ LET Loop(bad) ==
               IF image_files = <<>>
               THEN /\ pc' = "skipped"
                    /\ UNCHANGED <<all_results, results, extracted>>
               ELSE IF bad # {}
               THEN LET first == CHOOSE i \in bad : \A j \in bad : i <= j
                    IN  /\ all_results' =
                               [i \in 1..(first - 1) |-> result_entry(image_files[i])]
                        /\ extracted' = SubSeq(image_files, 1, first)
                        /\ pc' = "raised"
                        /\ UNCHANGED results
               ELSE /\ all_results' = collect_all_results(all_results, image_files)
                    /\ results' = <<find_consensus(all_results')>>
                    /\ extracted' = image_files
                    /\ pc' = "full_done"
       IN  Loop({i \in 1..Len(image_files) : ExtractionRaises(image_files[i])})
    /\ UNCHANGED <<image_files, sample_size, confidence_threshold, selected_files,
                   field_values, images_processed, other_files, other_results>>
    /\ UNCHANGED <<monitoring_vars, debug_vars, loop_vars>>

\* OptimizedConsensusAnalyzer.analyze_debug_images_consensus_optimized, up to the
\* call of _process_images_with_early_termination
StartOptimized(n, threshold) ==
    /\ pc = "listed"
    /\ sample_size' = n
    /\ confidence_threshold' = threshold
    /\ IF image_files = <<>>
       THEN /\ pc' = "skipped"
            /\ UNCHANGED selected_files
       ELSE /\ selected_files' = TopSlice(prioritize_images_by_method(image_files), n)
            /\ pc' = "opt_loop"
    /\ UNCHANGED <<image_files, all_results, results, field_values, images_processed,
                   extracted, other_files, other_results>>
    /\ UNCHANGED <<monitoring_vars, debug_vars, loop_vars>>

\* one pass of the loop of _process_images_with_early_termination; the pass that
\* breaks, or the last one, goes on to the final consensus and returns; a pass
\* in which a strategy call raises ends the analysis with that exception
ProcessImage ==
    /\ pc = "opt_loop"
    /\ images_processed < Len(selected_files)
    /\ LET image == selected_files[images_processed + 1]
           Pass(fv) ==
               /\ field_values' = fv
               /\ images_processed' = images_processed + 1
               /\ IF ThresholdReached(calculate_current_confidence(fv),
                                      confidence_threshold)
                     \/ images_processed' = Len(selected_files)
                  THEN /\ results' =
                              <<WithImagesProcessed(calculate_consensus_from_values(fv),
                                                    images_processed')>>
                       /\ pc' = "opt_done"
                  ELSE UNCHANGED <<results, pc>>
       IN  /\ extracted' = Append(extracted, image)
           /\ IF ExtractionRaises(image)
              THEN /\ pc' = "raised"
                   /\ UNCHANGED <<field_values, images_processed, results>>
              ELSE Pass(Collect(field_values, image))
    /\ UNCHANGED <<image_files, all_results, sample_size, confidence_threshold,
                   selected_files, other_files, other_results>>
    /\ UNCHANGED <<monitoring_vars, debug_vars, loop_vars>>

\* TapTapDataExtractor.batch_extract_advanced over the folder
BatchExtractAdvanced ==
    /\ pc = "listed"
    /\ LET Loop(combined) ==
               LET bad == {i \in 1..Len(image_files) : Raised(combined[i])}
               IN  IF bad # {}
                   THEN /\ pc' = "raised"
                        /\ extracted' =
                               SubSeq(image_files, 1, CHOOSE i \in bad : \A j \in bad : i <= j)
                        /\ UNCHANGED results
                   ELSE /\ pc' = "batch_done"
                        /\ extracted' = image_files
                        /\ results' = combined
       IN  Loop([i \in 1..Len(image_files) |-> extract_stat_combined(image_files[i])])
    /\ UNCHANGED <<image_files, all_results, sample_size, confidence_threshold,
                   selected_files, field_values, images_processed, other_files,
                   other_results>>
    /\ UNCHANGED <<monitoring_vars, debug_vars, loop_vars>>

Next ==
    \/ AnalyzeFull
    \/ \E n \in SampleSizes, threshold \in Thresholds : StartOptimized(n, threshold)
    \/ ProcessImage

Spec == Init /\ [][Next]_vars

NextCombined == BatchExtractAdvanced

SpecCombined == InitCombined /\ [][NextCombined]_vars

(***************************************************************************)
(* The two analyses as functions of the listing and of the arguments: what *)
(* a call returns for a non-empty listing.                                  *)
(***************************************************************************)
\* analyze_debug_images_consensus
analyze_full(files) ==
    find_consensus([i \in 1..Len(files) |-> result_entry(files[i])])

\* the loop of _process_images_with_early_termination, from image k + 1 on
RECURSIVE early_termination(_, _, _, _)
early_termination(files, threshold, fv, k) ==
    IF k = Len(files)
    THEN [field_values |-> fv, images_processed |-> k]
    ELSE LET After(collected) ==
                 IF ThresholdReached(calculate_current_confidence(collected), threshold)
                 THEN [field_values |-> collected, images_processed |-> k + 1]
                 ELSE early_termination(files, threshold, collected, k + 1)
         IN  After(Collect(fv, files[k + 1]))

\* analyze_debug_images_consensus_optimized
analyze_optimized(files, n, threshold) ==
    LET Returned(run) ==
            WithImagesProcessed(calculate_consensus_from_values(run.field_values),
                                run.images_processed)
    IN  Returned(early_termination(TopSlice(prioritize_images_by_method(files), n),
                                   threshold, NoValues, 0))

(***************************************************************************)
(* Two folders side by side: the second holds the same files, one of them  *)
(* possibly recognised differently.  The analysis of the first is followed *)
(* by the same analysis, with the same arguments, of the second.           *)
(***************************************************************************)
TwinOcr == {<<"E", "B", "E">>, <<"E", "A", "E">>, <<"A", "A", "B">>}
TwinImages == {Image(f, TRUE, o) : f \in Filenames, o \in TwinOcr}

InitTwin ==
    /\ image_files \in Listings(TwinImages, MaxImages)
    /\ Idle
    /\ other_files \in {[image_files EXCEPT ![i] = Image(image_files[i].file, TRUE, o)] :
                            i \in 1..Len(image_files), o \in TwinOcr}
    /\ other_results = <<>>
    /\ NotMonitoring
    /\ NotDebugging
    /\ NotLooping

AnalyzeOther ==
    /\ pc \in {"full_done", "opt_done"}
    /\ other_results = <<>>
    /\ other_results' =
           IF pc = "full_done"
           THEN <<analyze_full(other_files)>>
           ELSE <<analyze_optimized(other_files, sample_size, confidence_threshold)>>
    /\ UNCHANGED <<image_files, pc, all_results, results, sample_size,
                   confidence_threshold, selected_files, field_values, images_processed,
                   extracted, other_files>>
    /\ UNCHANGED <<monitoring_vars, debug_vars, loop_vars>>

NextTwin == Next \/ AnalyzeOther

SpecTwin == InitTwin /\ [][NextTwin]_vars

(***************************************************************************)
(* The full analysis called a second time, the folder left as it was: the  *)
(* result of the first call is kept aside for the comparison.              *)
(***************************************************************************)
AnalyzeFullAgain ==
    /\ pc = "full_done"
    /\ other_files' = image_files
    /\ other_results' = results
    /\ all_results' = collect_all_results(all_results, image_files)
    /\ results' = <<find_consensus(all_results')>>
    /\ pc' = "full_again"
    /\ UNCHANGED <<image_files, sample_size, confidence_threshold, selected_files,
                   field_values, images_processed, extracted>>
    /\ UNCHANGED <<monitoring_vars, debug_vars, loop_vars>>

NextTwice == AnalyzeFull \/ AnalyzeFullAgain

SpecTwice == Init /\ [][NextTwice]_vars

(***************************************************************************)
(* Folders whose images are given by the text Tesseract recognises on them: *)
(* one image with a text made of at most MaxPieces pieces separated by a    *)
(* blank, or the three images of the end-to-end scenario.                   *)
(***************************************************************************)
Pieces ==
    {<<"1", "2">>, <<"1", "2", "3">>, <<"B", "7">>, <<"S", "3", "4">>, <<"T", "5", "6">>,
     <<"1", ",", "2", "3", "4">>}

RECURSIVE Join(_)
Join(pieces) ==
    IF pieces = <<>> THEN <<>>
    ELSE IF Len(pieces) = 1 THEN pieces[1]
    ELSE pieces[1] \o <<" ">> \o Join(Tail(pieces))

PieceTexts(n) == {Join(ps) : ps \in UNION {[1..k -> Pieces] : k \in 0..n}}

\* 'B12 S34 ○56 #123 $1,234', '1234156123', 'B12S34T56 123 1,234'
ScenarioTexts ==
    <<<<"B", "1", "2", " ", "S", "3", "4", " ", "○", "5", "6", " ", "#", "1", "2", "3", " ",
        "$", "1", ",", "2", "3", "4">>,
      <<"1", "2", "3", "4", "1", "5", "6", "1", "2", "3">>,
      <<"B", "1", "2", "S", "3", "4", "T", "5", "6", " ", "1", "2", "3", " ",
        "1", ",", "2", "3", "4">>>>

ScenarioImages ==
    <<TextImage("adaptive_binarized", ScenarioTexts[1]),
      TextImage("gaussian_blur", ScenarioTexts[2]),
      TextImage("processed_17", ScenarioTexts[3])>>

InitText ==
    /\ image_files \in {<<TextImage("gaussian_blur", t)>> : t \in PieceTexts(MaxPieces)}
                           \cup {ScenarioImages}
    /\ Idle
    /\ Alone
    /\ NotMonitoring
    /\ NotDebugging
    /\ NotLooping

NextText == BatchExtractAdvanced \/ AnalyzeFull

SpecText == InitText /\ [][NextText]_vars

(***************************************************************************)
(* A folder in which Tesseract fails on some of the images.                *)
(***************************************************************************)
CrashOcr == {<<"A", "A", "B">>, <<"E", "B", "E">>, <<OcrFailure, OcrFailure, OcrFailure>>}
CrashImages == {Image(f, TRUE, o) : f \in Filenames, o \in CrashOcr}

InitCrash ==
    /\ image_files \in Listings(CrashImages, MaxImages)
    /\ Idle
    /\ Alone
    /\ NotMonitoring
    /\ NotDebugging
    /\ NotLooping

SpecCrash == InitCrash /\ [][Next]_vars

(***************************************************************************)
(* A folder of images on which Tesseract recognises a single labelled      *)
(* number: the pools are small and the confidences low.                    *)
(***************************************************************************)
SparseTexts == {<<"B", "7">>, <<"B", "1", "2">>}

SparseImages ==
    {TextImage(f, t) : f \in {"gaussian_blur", "processed_17", "otsu_binarized"},
                       t \in SparseTexts}

InitSparse ==
    /\ image_files \in Listings(SparseImages, MaxImages)
    /\ Idle
    /\ Alone
    /\ NotMonitoring
    /\ NotDebugging
    /\ NotLooping

SpecSparse == InitSparse /\ [][Next]_vars

(***************************************************************************)
(* EnhancedImageProcessor (src/src/utils/enhanced_image_processing.py).    *)
(* An image is what the OpenCV calls make of it: whether it has a colour   *)
(* axis, and the calls that raise on it; a call that raises on an input    *)
(* raises on it again.  A crop on disk carries in addition whether         *)
(* cv2.imread decodes it, its region, and per processed variant the text   *)
(* Tesseract recognises on that variant (OcrFailure if the call raises).   *)
(***************************************************************************)
Transforms ==
    {"cvtColor", "clahe", "adaptiveThreshold_clahe", "GaussianBlur", "adaptiveThreshold",
     "threshold"}

\* the OpenCV calls of the try block, in order
TryCalls(img) ==
    (IF img.colour THEN <<"cvtColor">> ELSE <<>>)
        \o <<"clahe", "adaptiveThreshold_clahe", "GaussianBlur", "adaptiveThreshold">>

\* the key stored in processed_images once the call has returned, "" if none
VariantOf(call) ==
    CASE call = "adaptiveThreshold_clahe" -> "processed_17"
      [] call = "GaussianBlur" -> "gaussian_blur"
      [] call = "adaptiveThreshold" -> "adaptive_binarized"
      [] OTHER -> ""

\* the keys the calls before the first raising one have stored, in order
StoredBefore(calls, throws) ==
    LET Upto(bad) ==
            LET n == IF bad = {} THEN Len(calls)
                     ELSE (CHOOSE i \in bad : \A j \in bad : i <= j) - 1
            IN  SelectSeq([i \in 1..n |-> VariantOf(calls[i])], LAMBDA key : key # "")
    IN  Upto({i \in 1..Len(calls) : calls[i] \in throws})

\* the dict returned, as the sequence of its keys in insertion order, or the
\* exception that leaves the except branch
process_image_optimized(img) ==
    IF \A i \in 1..Len(TryCalls(img)) : TryCalls(img)[i] \notin img.throws
    THEN [keys |-> StoredBefore(TryCalls(img), img.throws)]
    ELSE IF (img.colour /\ "cvtColor" \in img.throws) \/ "threshold" \in img.throws
    THEN [exception |-> "cv2.error"]
    ELSE [keys |-> Append(StoredBefore(TryCalls(img), img.throws), "fallback")]

\* len(self.tesseract_configs)
NumConfigs == 4

\* int(match) of a run of digits
RECURSIVE int(_)
int(chars) ==
    IF chars = <<>> THEN 0
    ELSE int(SubSeq(chars, 1, Len(chars) - 1)) * 10
             + (CHOOSE d \in 0..9 : ToString(d) = chars[Len(chars)])

\* the stripped non-empty texts of the OCR calls: per variant, one per config
all_texts_of(crop, keys) ==
    Flatten([i \in 1..Len(keys) |->
                IF crop.text[keys[i]] = OcrFailure \/ strip(crop.text[keys[i]]) = <<>>
                THEN <<>>
                ELSE [c \in 1..NumConfigs |-> strip(crop.text[keys[i]])]])

\* the numbers of all texts, in order
numbers_of(all_texts) ==
    Flatten([i \in 1..Len(all_texts) |->
                LET Ints(matches) == [j \in 1..Len(matches) |-> int(matches[j])]
                IN  Ints(re_findall(all_numbers_pattern, all_texts[i]))])

\* [num for num, count in Counter(numbers).most_common()]: the distinct
\* numbers by falling count, equal counts in the order of first occurrence
common_numbers_of(numbers) ==
    LET First(v) == CHOOSE i \in 1..Len(numbers) :
                        numbers[i] = v /\ \A j \in 1..(i - 1) : numbers[j] # v
        Ahead(w, v) == \/ CountOf(numbers, w) > CountOf(numbers, v)
                       \/ CountOf(numbers, w) = CountOf(numbers, v) /\ First(w) < First(v)
        Place(v) == Cardinality({w \in Range(numbers) : Ahead(w, v)}) + 1
    IN  [k \in 1..Cardinality(Range(numbers)) |->
            CHOOSE v \in Range(numbers) : Place(v) = k]

\* b_value ... dollar_amount: str(common_numbers[i]) where there is one, else '0'
field_values_of(common_numbers) ==
    [i \in 1..5 |-> IF Len(common_numbers) >= i THEN ToString(common_numbers[i]) ELSE "0"]

\* EnhancedImageProcessor.extract_data_from_image_optimized (filename and
\* timestamp, which repeat the path, are left out of the record)
extract_data_from_image_optimized(crop) ==
    IF ~crop.readable THEN EmptyDict
    ELSE LET Result(processed) ==
                 IF "exception" \in DOMAIN processed THEN processed
                 ELSE LET Record(values) ==
                              [b_value |-> values[1], s_value |-> values[2],
                               t_value |-> values[3], people_count |-> values[4],
                               dollar_amount |-> values[5], region |-> crop.region,
                               processing_methods |-> processed.keys]
                      IN  Record(field_values_of(common_numbers_of(
                                     numbers_of(all_texts_of(crop, processed.keys)))))
         IN  Result(process_image_optimized(crop))

(***************************************************************************)
(* One pass of the monitoring loop after the crops are written             *)
(* (src/src/runners/consensus_analysis_runner.py).                         *)
(***************************************************************************)
regions == <<"daroka", "lexi", "mafer">>

\* extract_latest_data_only: the records of the crops that gave one
extract_latest_data_only(crops) ==
    SelectSeq([i \in 1..Len(crops) |-> extract_data_from_image_optimized(crops[i])],
              LAMBDA result : result # EmptyDict /\ "exception" \notin DOMAIN result)

\* confidence = 100.0
simple_confidence(record) == <<100, 1>>

\* run_simple_consensus_analysis: the first record of each region, at the
\* confidence assumed for it
run_simple_consensus_analysis(crops) ==
    LET Grouped(latest_results) ==
            LET found == {latest_results[i].region : i \in 1..Len(latest_results)}
                first(region) == latest_results[CHOOSE i \in 1..Len(latest_results) :
                                     /\ latest_results[i].region = region
                                     /\ \A j \in 1..(i - 1) : latest_results[j].region # region]
                grouped == SelectSeq(regions, LAMBDA region : region \in found)
            IN  [average_confidence |->
                     IF found = {} THEN <<0, 1>>
                     ELSE RatDiv(RatSum([i \in 1..Len(grouped) |->
                                            simple_confidence(first(grouped[i]))]),
                                 Len(grouped)),
                 results |-> [region \in found |->
                                 [consensus |-> first(region),
                                  confidence |-> simple_confidence(first(region)),
                                  methods_used |-> 1]]]
    IN  Grouped(extract_latest_data_only(crops))

\* run_consensus_on_latest_images, latest_images being the crops found
run_consensus_on_latest_images(crops) ==
    IF crops = <<>> THEN [average_confidence |-> <<0, 1>>, results |-> EmptyDict]
    ELSE run_simple_consensus_analysis(crops)

\* what Tesseract recognises on the variants of a crop
CropTexts ==
    {[processed_17 |-> <<>>, gaussian_blur |-> <<>>, adaptive_binarized |-> <<>>,
      fallback |-> <<>>],
     [processed_17 |-> <<"1", "2", " ", "7">>, gaussian_blur |-> OcrFailure,
      adaptive_binarized |-> <<"7">>, fallback |-> <<"1", "2">>],
     [processed_17 |-> <<"0", "0", "7", " ", "1", "2", " ", "3", "4", "5", "\n", "1", " ",
                         "9", "9">>,
      gaussian_blur |-> <<"1", "2", " ", "7">>, adaptive_binarized |-> <<"\n">>,
      fallback |-> <<"5">>]}

CropThrows == {{}, {"GaussianBlur"}, {"cvtColor"}}

Crop(region, readable, throws, text) ==
    [region |-> region, readable |-> readable, colour |-> TRUE, throws |-> throws,
     text |-> text]

CropsOf(region) ==
    {Crop(region, FALSE, {}, t) : t \in {CHOOSE t \in CropTexts : t.fallback = <<>>}}
        \cup {Crop(region, TRUE, throws, t) : throws \in CropThrows, t \in CropTexts}

\* the crop of a region, if its crop area was not empty
Present(region) == {<<>>} \cup {<<crop>> : crop \in CropsOf(region)}

\* the crops of the latest screenshot, in the order of the regions
CropListings ==
    {a \o b \o c : a \in Present(regions[1]), b \in Present(regions[2]),
                   c \in Present(regions[3])}

\* no debug-folder analysis under way
NoAnalysis ==
    /\ image_files = <<>>
    /\ all_results = <<>>
    /\ results = <<>>
    /\ sample_size = 0
    /\ confidence_threshold = 0
    /\ selected_files = <<>>
    /\ field_values = NoValues
    /\ images_processed = 0
    /\ extracted = <<>>
    /\ Alone

\* steps 1 and 2 of an iteration are done: the crops are on disk
InitPass ==
    /\ pc = "cropped"
    /\ cropped_files \in CropListings
    /\ extracted_data = <<>>
    /\ consensus_results = <<>>
    /\ input_image = <<>>
    /\ processed_images = <<>>
    /\ NotDebugging
    /\ NotLooping
    /\ NoAnalysis

\* step 3 of an iteration
ExtractLatestDataOnly ==
    /\ pc = "cropped"
    /\ extracted_data' = extract_latest_data_only(cropped_files)
    /\ pc' = "extracted"
    /\ UNCHANGED <<analysis_vars, debug_vars, loop_vars, cropped_files, consensus_results, input_image,
                   processed_images>>

\* step 4 of an iteration
RunConsensusOnLatestImages ==
    /\ pc = "extracted"
    /\ consensus_results' = <<run_consensus_on_latest_images(cropped_files)>>
    /\ pc' = "analyzed"
    /\ UNCHANGED <<analysis_vars, debug_vars, loop_vars, cropped_files, extracted_data, input_image,
                   processed_images>>

NextPass == ExtractLatestDataOnly \/ RunConsensusOnLatestImages

SpecPass == InitPass /\ [][NextPass]_vars

(***************************************************************************)
(* process_image_optimized called on an image, colour or gray.             *)
(***************************************************************************)
InitProcess ==
    /\ pc = "loaded"
    /\ input_image \in [colour : BOOLEAN, throws : SUBSET Transforms]
    /\ processed_images = <<>>
    /\ cropped_files = <<>>
    /\ extracted_data = <<>>
    /\ consensus_results = <<>>
    /\ NotDebugging
    /\ NotLooping
    /\ NoAnalysis

ProcessImageOptimized ==
    /\ pc = "loaded"
    /\ processed_images' = process_image_optimized(input_image)
    /\ pc' = IF "exception" \in DOMAIN processed_images' THEN "raised" ELSE "processed"
    /\ UNCHANGED <<analysis_vars, debug_vars, loop_vars, cropped_files, extracted_data, consensus_results,
                   input_image>>

NextProcess == ProcessImageOptimized

SpecProcess == InitProcess /\ [][NextProcess]_vars

(***************************************************************************)
(* DebugImageProcessor (src/src/utils/debug_image_processing.py).  An      *)
(* image is the sequence of OpenCV transforms applied to the image that    *)
(* cv2.imread loaded, <<>> being the loaded image itself.  The cropped     *)
(* image handed to the tool carries whether cv2.imread decodes it, its     *)
(* region, the step of the pipeline that raises on it (0 if none does) and *)
(* whether the fallback processing raises on it.                           *)
(***************************************************************************)
rescale_image(img) == Append(img, "resize")

remove_borders(img) == Append(img, "copyMakeBorder")

apply_binarization(img) ==
    LET gray == Append(img, "cvtColor")
    IN  <<Append(gray, "threshold_otsu"),
          Append(gray, "adaptiveThreshold_gaussian"),
          Append(gray, "adaptiveThreshold_mean")>>

remove_noise(img) ==
    <<Append(img, "GaussianBlur"), Append(img, "medianBlur"),
      Append(img, "bilateralFilter"), Append(img, "fastNlMeansDenoising")>>

apply_morphological_operations(img) ==
    <<Append(img, "dilate"), Append(img, "erode"),
      Append(img, "morphologyEx_open"), Append(img, "morphologyEx_close")>>

enhance_contrast(img) ==
    <<Append(img, "clahe"), Append(img, "equalizeHist"), Append(img, "gamma")>>

\* the steps of the pipeline that call OpenCV; step 3, deskewing, is skipped
RaisingSteps == {1, 2, 4, 5, 6, 7}

\* process_image_comprehensive, the loaded image being <<>>: the list returned,
\* or the exception of the fallback processing, which nothing catches
process_image_comprehensive(fails_at, fallback_raises) ==
    LET image == <<>>
        rescaled == rescale_image(image)
        bordered == remove_borders(rescaled)
        deskewed == bordered
        binarized == apply_binarization(deskewed)
        denoised == remove_noise(binarized[1])
        morph_ops == apply_morphological_operations(denoised[1])
        enhanced == enhance_contrast(Append(deskewed, "cvtColor"))
        step(n) == CASE n = 1 -> <<rescaled>>
                     [] n = 2 -> <<bordered>>
                     [] n = 3 -> <<deskewed>>
                     [] n = 4 -> binarized
                     [] n = 5 -> denoised
                     [] n = 6 -> morph_ops
                     [] n = 7 -> enhanced
        RECURSIVE upto(_)
        upto(n) == IF n = 0 THEN <<image>> ELSE upto(n - 1) \o step(n)
        thresh == <<"cvtColor", "threshold_otsu">>
    IN  IF fails_at = 0 THEN [images |-> upto(7)]
        ELSE IF fallback_raises THEN [exception |-> "cv2.error"]
        ELSE [images |-> Append(upto(fails_at - 1), thresh)]

\* save_processed_images: the descriptive names
image_types ==
    <<"rescaled", "bordered", "deskewed",
      "otsu_binarized", "adaptive_binarized", "adaptive2_binarized",
      "gaussian_blur", "median_blur", "bilateral_filter", "denoised",
      "dilated", "eroded", "opening", "closing",
      "clahe_enhanced", "histogram_equalized", "gamma_corrected">>

\* the name save_processed_images gives the image at index i of the list,
\* counted from 0 as enumerate counts
img_name(i) ==
    IF i < Len(image_types) THEN image_types[i + 1]
    ELSE "processed_" \o ToString(i)

\* save_processed_images: the files written into the folder of the region
save_processed_images(original_image, images, region) ==
    {[region |-> region, name |-> "original", holds |-> original_image]}
        \cup {[region |-> region, name |-> img_name(i - 1), holds |-> images[i]] :
                 i \in 1..Len(images)}

\* the cropped images that debug_all_cropped_images hands to the tool
DebugInputs ==
    [region : Range(regions), readable : BOOLEAN, fails_at : {0} \cup RaisingSteps,
     fallback_raises : BOOLEAN]

InitDebug ==
    /\ pc = "debugging"
    /\ image_path \in DebugInputs
    /\ debug_folder = {}
    /\ NotMonitoring
    /\ NotLooping
    /\ NoAnalysis

\* debug_single_image, up to the files it writes
DebugSingleImage ==
    /\ pc = "debugging"
    /\ LET Saved(processed) ==
               IF ~image_path.readable
               THEN /\ debug_folder' = debug_folder
                    /\ pc' = "debug_skipped"
               ELSE IF "exception" \in DOMAIN processed
               THEN /\ debug_folder' = debug_folder
                    /\ pc' = "raised"
               ELSE /\ debug_folder' = debug_folder
                           \cup save_processed_images(<<>>, processed.images,
                                                      image_path.region)
                    /\ pc' = "debugged"
       IN  Saved(process_image_comprehensive(image_path.fails_at,
                                             image_path.fallback_raises))
    /\ UNCHANGED <<analysis_vars, monitoring_vars, loop_vars, image_path>>

NextDebug == DebugSingleImage

SpecDebug == InitDebug /\ [][NextDebug]_vars

(***************************************************************************)
(* The full analysis run on the same images listed in another order:       *)
(* os.listdir returns the files of a folder in arbitrary order.            *)
(***************************************************************************)
PermutedOcr == {<<"A", "E", "E">>, <<"B", "E", "E">>, <<"A", "B", "E">>, <<"E", "E", "E">>}

PermutedImages == {Image(f, TRUE, o) : f \in Filenames, o \in PermutedOcr}

Reorderings(files) ==
    {[i \in 1..Len(files) |-> files[p[i]]] :
        p \in {q \in [1..Len(files) -> 1..Len(files)] :
                  \A i, j \in 1..Len(files) : q[i] = q[j] => i = j}}

InitPermuted ==
    /\ image_files \in Listings(PermutedImages, MaxImages)
    /\ Idle
    /\ other_files \in Reorderings(image_files)
    /\ other_results = <<>>
    /\ NotMonitoring
    /\ NotDebugging
    /\ NotLooping

NextPermuted == AnalyzeFull \/ AnalyzeOther

SpecPermuted == InitPermuted /\ [][NextPermuted]_vars

(***************************************************************************)
(* run_continuous_monitoring (src/src/runners/consensus_analysis_runner.py):*)
(* the loop of passes.  A pass either completes or has one of its steps    *)
(* raise an exception; save_iteration_results and the analysis of step 4   *)
(* catch their own exceptions, the other steps do not.  The 60 seconds of  *)
(* the run, with 5 seconds at least per pass, bound the number of passes.  *)
(***************************************************************************)
MaxPasses == 3

\* the calls of a pass that can raise into the handler of the loop: those
\* before iteration_data is recorded, and cleanup_iteration_images after it
StepsBeforeRecord ==
    {"take_screenshot_only", "crop_latest_screenshot", "extract_latest_data_only",
     "get_latest_cropped_images"}

StepsAfterRecord == {"cleanup_iteration_images"}

PassOutcomes == {"completed"} \cup StepsBeforeRecord \cup StepsAfterRecord

InitMonitoring ==
    /\ pc = "monitoring"
    /\ iteration = 1
    /\ performance_data = [iterations |-> <<>>, total_captures |-> 0, errors |-> <<>>]
    /\ browser = "open"
    /\ NotMonitoring
    /\ NotDebugging
    /\ NoAnalysis

\* performance_data after iteration_data has been appended
recorded(data, n) ==
    [data EXCEPT !.iterations = Append(@, [iteration |-> n]),
                 !.total_captures = @ + 1]

\* performance_data after the handler of the loop has appended the error
failed(data, n, step) ==
    [data EXCEPT !.errors = Append(@, [iteration |-> n, error |-> step])]

\* one pass of the while loop, whatever happens in it
MonitoringPass(outcome) ==
    /\ pc = "monitoring"
    /\ iteration <= MaxPasses
    /\ performance_data' =
           IF outcome = "completed" THEN recorded(performance_data, iteration)
           ELSE IF outcome \in StepsBeforeRecord
           THEN failed(performance_data, iteration, outcome)
           ELSE failed(recorded(performance_data, iteration), iteration, outcome)
    /\ iteration' = iteration + 1
    /\ UNCHANGED <<pc, browser, analysis_vars, monitoring_vars, debug_vars>>

\* the 60 seconds are over: the loop is left and the finally clause runs
EndMonitoring ==
    /\ pc = "monitoring"
    /\ iteration > 1
    /\ browser' = "closed"
    /\ pc' = "monitor_done"
    /\ UNCHANGED <<iteration, performance_data, analysis_vars, monitoring_vars, debug_vars>>

NextMonitoring ==
    \/ \E outcome \in PassOutcomes : MonitoringPass(outcome)
    \/ EndMonitoring

SpecMonitoring == InitMonitoring /\ [][NextMonitoring]_vars

(***************************************************************************)
(* Reference notions the properties are stated with: what each strategy    *)
(* observes on an image, the pool of observations of a field, frequencies. *)
(***************************************************************************)
\* the value strategy number m (1 = v2, 2 = v3, 3 = v4) reads for field f, "" if none
Observed(image, m, f) == IF image.readable THEN ParsedText[image.ocr[m]][f] ELSE ""

\* the non-empty observations of field f over the images: <<image, strategy>> pairs
PoolOf(images, f) ==
    {o \in (1..Len(images)) \X (1..3) : Observed(images[o[1]], o[2], f) # ""}

PoolValue(images, f, o) == Observed(images[o[1]], o[2], f)

Freq(images, f, v) ==
    Cardinality({o \in PoolOf(images, f) : PoolValue(images, f, o) = v})

MaxFreq(images, f) ==
    CHOOSE n \in 0..(3 * Len(images)) :
        /\ \A o \in PoolOf(images, f) : Freq(images, f, PoolValue(images, f, o)) <= n
        /\ n > 0 => \E o \in PoolOf(images, f) : Freq(images, f, PoolValue(images, f, o)) = n

\* fc is a plurality outcome of the pool of field f over the images
IsPlurality(images, f, fc) ==
    /\ fc.total = Cardinality(PoolOf(images, f))
    /\ fc.count = MaxFreq(images, f)
    /\ fc.confidence[1] * fc.total = fc.confidence[2] * fc.count * 100
    /\ IF PoolOf(images, f) = {}
       THEN fc.value = "" /\ fc.confidence = <<0, 1>>
       ELSE fc.value # "" /\ Freq(images, f, fc.value) = MaxFreq(images, f)

\* the mean of the five per-field plurality confidences over the images
RefConfidence(images) ==
    LET c(f) == IF PoolOf(images, f) = {} THEN <<0, 1>>
                ELSE Rat(MaxFreq(images, f) * 100, Cardinality(PoolOf(images, f)))
    IN  RatDiv(RatAdd(c("b_value"), RatAdd(c("s_value"), RatAdd(c("t_value"),
                   RatAdd(c("people_count"), c("dollar_amount"))))), 5)

ReachesThreshold(images, k, threshold) ==
    RatGeq(RefConfidence(SubSeq(images, 1, k)), <<threshold, 1>>)

\* the first k at which the running confidence reaches the threshold, else all
StopPoint(images, threshold) ==
    IF \E k \in 1..Len(images) : ReachesThreshold(images, k, threshold)
    THEN CHOOSE k \in 1..Len(images) :
             /\ ReachesThreshold(images, k, threshold)
             /\ \A j \in 1..(k - 1) : ~ReachesThreshold(images, j, threshold)
    ELSE Len(images)

\* C1: for a readable image, extract_stat_combined returns per field v4's value
\* if non-empty, else v3's if non-empty, else v2's.
C1_CombinerPriority ==
    pc = "batch_done" =>
        \A i \in 1..Len(results) : \A f \in FieldSet :
            LET a == Observed(image_files[i], 1, f)
                b == Observed(image_files[i], 2, f)
                c == Observed(image_files[i], 3, f)
            IN  results[i].final_result[f] = IF c # "" THEN c ELSE IF b # "" THEN b ELSE a

C1_Witness ==
    /\ pc = "batch_done"
    /\ \E f \in FieldSet :
          /\ Observed(image_files[1], 3, f) = ""
          /\ Observed(image_files[1], 2, f) # ""
          /\ Observed(image_files[1], 1, f) # ""
          /\ Observed(image_files[1], 1, f) # Observed(image_files[1], 2, f)
          /\ results[1].final_result[f] = Observed(image_files[1], 2, f)
    /\ \E f \in FieldSet :
          /\ Observed(image_files[1], 3, f) # ""
          /\ Observed(image_files[1], 1, f) # ""
          /\ Observed(image_files[1], 1, f) # Observed(image_files[1], 3, f)

\* C2: the full consensus reports, per field, a value of maximal frequency in the
\* pool of all non-empty observations over every image and strategy, with
\* support_count that frequency, total the pool size, confidence count/total*100.
C2_FullPlurality ==
    pc = "full_done" =>
        \A f \in FieldSet : IsPlurality(image_files, f, results[1].field[f])

\* observations 12, 12, 21 of b_value: value 12, count 2, total 3, confidence 200/3
C2_Witness ==
    /\ pc = "full_done"
    /\ Len(image_files) = 1
    /\ results[1].field["b_value"] =
           [value |-> "12", confidence |-> <<200, 3>>, count |-> 2, total |-> 3]

\* the images a finished analysis has run extraction on
Processed == IF pc = "full_done" THEN image_files ELSE extracted

\* C3: consensus over no observation is not an error in either mode: a field
\* that is never non-empty gets value "", confidence 0, support_count 0 and
\* total 0, and the overall confidence is 0 when all five fields are empty;
\* the same holds of the empty list of records (a folder without images).
C3_EmptyConsensus ==
    /\ pc \in {"full_done", "opt_done"} =>
          /\ Len(results) = 1
          /\ \A f \in FieldSet :
                PoolOf(Processed, f) = {} =>
                    results[1].field[f] =
                        [value |-> "", confidence |-> <<0, 1>>, count |-> 0, total |-> 0]
          /\ (\A f \in FieldSet : PoolOf(Processed, f) = {}) =>
                results[1].confidence = <<0, 1>>
    /\ image_files = <<>> =>
          /\ \A f \in FieldSet :
                /\ find_consensus(<<>>).field[f] =
                       [value |-> "", confidence |-> <<0, 1>>, count |-> 0, total |-> 0]
                /\ calculate_consensus_from_values(NoValues).field[f] =
                       [value |-> "", confidence |-> <<0, 1>>, count |-> 0, total |-> 0]
          /\ find_consensus(<<>>).confidence = <<0, 1>>
          /\ calculate_consensus_from_values(NoValues).confidence = <<0, 1>>

\* a full consensus over two unreadable images
C3_Witness ==
    /\ pc = "full_done"
    /\ Len(image_files) = 2
    /\ \A f \in FieldSet : PoolOf(image_files, f) = {}
    /\ results[1].confidence = <<0, 1>>

\* C4: for a positive sample_size the optimized consensus never runs extraction
\* on more than sample_size images nor on more than the candidates, and when
\* the running confidence never reaches the threshold the result returned uses
\* exactly the selected images.
C4_SampleBound ==
    /\ pc \in {"opt_loop", "opt_done"} =>
          /\ sample_size > 0
          /\ images_processed <= sample_size
          /\ images_processed <= Len(image_files)
          /\ Len(extracted) <= sample_size
          /\ Len(extracted) <= Len(image_files)
    /\ pc = "opt_done" =>
          /\ results[1].images_processed <= sample_size
          /\ results[1].images_processed <= Len(image_files)
          /\ (\A k \in 1..Len(selected_files) :
                  ~ReachesThreshold(selected_files, k, confidence_threshold)) =>
                /\ results[1].images_processed = Len(selected_files)
                /\ extracted = selected_files
                /\ Len(selected_files) =
                       (IF sample_size < Len(image_files) THEN sample_size
                        ELSE Len(image_files))
                /\ \A f \in FieldSet :
                       IsPlurality(selected_files, f, results[1].field[f])

\* two candidates, sample_size 1, threshold never reached: one image processed
C4_Witness ==
    /\ pc = "opt_done"
    /\ Len(image_files) = 2
    /\ sample_size = 1
    /\ ~ReachesThreshold(selected_files, 1, confidence_threshold)
    /\ results[1].images_processed = 1
    /\ results[1].field["b_value"].total > 0

\* C5: the loop stops at the first image after which the running confidence is
\* >= confidence_threshold: images_processed is the least such k, or the number
\* of selected images when there is none, and no later image is extracted.
C5_EarlyTermination ==
    /\ pc = "opt_loop" =>
          /\ extracted = SubSeq(selected_files, 1, images_processed)
          /\ images_processed < Len(selected_files)
          /\ \A k \in 1..images_processed :
                 ~ReachesThreshold(selected_files, k, confidence_threshold)
    /\ pc = "opt_done" =>
          /\ images_processed = StopPoint(selected_files, confidence_threshold)
          /\ results[1].images_processed = images_processed
          /\ extracted = SubSeq(selected_files, 1, images_processed)

\* stopped after the first of two selected images
C5_Witness ==
    /\ pc = "opt_done"
    /\ Len(selected_files) = 2
    /\ results[1].images_processed = 1
    /\ ReachesThreshold(selected_files, 1, confidence_threshold)

\* C6: the optimized result is computed from exactly the observations of the
\* first images_processed images in priority order: per field the total, the
\* support count and the value are the plurality over that prefix, and
\* images_processed is the number of images extraction was attempted on.
C6_PrefixOnly ==
    pc = "opt_done" =>
        LET k == results[1].images_processed
            prefix == SubSeq(prioritize_images_by_method(image_files), 1, k)
        IN  /\ k = Len(extracted)
            /\ extracted = prefix
            /\ \A f \in FieldSet : IsPlurality(prefix, f, results[1].field[f])

\* one image processed although a second candidate with observations exists
C6_Witness ==
    /\ pc = "opt_done"
    /\ results[1].images_processed = 1
    /\ Len(image_files) = 2
    /\ \E f \in FieldSet :
          Cardinality(PoolOf(image_files, f)) > results[1].field[f].total

\* the non-empty observations of field f, image by image and within an image
\* in the order v2, v3, v4
ImageMajor(images, f) ==
    Flatten([i \in 1..Len(images) |->
                SelectSeq([m \in 1..3 |-> Observed(images[i], m, f)], LAMBDA v : v # "")])

\* the non-empty observations of field f, strategy by strategy (v2, v3, v4) and
\* within a strategy in the order of the images
MethodMajor(images, f) ==
    Flatten([m \in 1..3 |->
                SelectSeq([i \in 1..Len(images) |-> Observed(images[i], m, f)],
                          LAMBDA v : v # "")])

Occurrences(seq, v) == Cardinality({i \in 1..Len(seq) : seq[i] = v})

\* v has the highest frequency in seq and, among the values that do, the
\* earliest first occurrence
FirstEncounteredPlurality(seq, v) ==
    \E i \in 1..Len(seq) :
        /\ seq[i] = v
        /\ \A j \in 1..Len(seq) : Occurrences(seq, seq[j]) <= Occurrences(seq, v)
        /\ \A j \in 1..(i - 1) : Occurrences(seq, seq[j]) < Occurrences(seq, v)

\* C7 as claimed: in both modes a tie for the highest frequency goes to the tied
\* value met first when the records are traversed image by image (v2, v3, v4
\* within an image).
C7_TieImageOrderBothModes ==
    /\ pc = "full_done" =>
          \A f \in FieldSet :
              PoolOf(image_files, f) # {} =>
                  FirstEncounteredPlurality(ImageMajor(image_files, f),
                                            results[1].field[f].value)
    /\ pc = "opt_done" =>
          \A f \in FieldSet :
              PoolOf(extracted, f) # {} =>
                  FirstEncounteredPlurality(ImageMajor(extracted, f),
                                            results[1].field[f].value)

\* C7 (amended): a tie for the highest frequency goes to the tied value met
\* first in the traversal of the mode: the optimized consensus traverses image
\* by image (v2, v3, v4 within an image); the full consensus traverses strategy
\* by strategy (all v2 observations in image order, then v3's, then v4's).
C7_TieFirstEncountered ==
    /\ pc = "full_done" =>
          \A f \in FieldSet :
              PoolOf(image_files, f) # {} =>
                  FirstEncounteredPlurality(MethodMajor(image_files, f),
                                            results[1].field[f].value)
    /\ pc = "opt_done" =>
          \A f \in FieldSet :
              PoolOf(extracted, f) # {} =>
                  FirstEncounteredPlurality(ImageMajor(extracted, f),
                                            results[1].field[f].value)

\* a full consensus whose b_value is a tie that the image-by-image traversal
\* would have decided the other way
C7_Witness ==
    /\ pc = "full_done"
    /\ \E f \in FieldSet :
          /\ PoolOf(image_files, f) # {}
          /\ \E v \in {PoolValue(image_files, f, o) : o \in PoolOf(image_files, f)} :
                /\ v # results[1].field[f].value
                /\ Freq(image_files, f, v) = results[1].field[f].count
                /\ FirstEncounteredPlurality(ImageMajor(image_files, f), v)

\* C8: in both modes the overall confidence is the arithmetic mean of the five
\* per-field confidences, an unobserved field counting as 0.
C8_OverallIsMean ==
    pc \in {"full_done", "opt_done"} =>
        LET c(f) == results[1].field[f].confidence
            total == RatAdd(c("b_value"), RatAdd(c("s_value"), RatAdd(c("t_value"),
                         RatAdd(c("people_count"), c("dollar_amount")))))
        IN  /\ results[1].confidence[1] * 5 * total[2] = total[1] * results[1].confidence[2]
            /\ \A f \in FieldSet : PoolOf(Processed, f) = {} => c(f) = <<0, 1>>

\* three fields at 100, two unobserved: overall 60
C8_Witness ==
    /\ pc = "full_done"
    /\ results[1].field["b_value"].confidence = <<100, 1>>
    /\ results[1].field["t_value"].confidence = <<0, 1>>
    /\ results[1].confidence = <<60, 1>>

\* observations strategy m contributed / fields it contributed to, 0 if none
MethodRatio(images, m) ==
    LET obs == Cardinality({x \in FieldSet \X (1..Len(images)) :
                               Observed(images[x[2]], m, x[1]) # ""})
        contributed == Cardinality({f \in FieldSet :
                               \E i \in 1..Len(images) : Observed(images[i], m, f) # ""})
    IN  IF contributed = 0 THEN <<0, 1>> ELSE <<obs, contributed>>

MethodIndex(name) == CHOOSE m \in 1..Len(methods) : methods[m] = name

\* C9: in the full consensus no strategy has a strictly higher ratio
\* observations / contributed fields than the reported best_method.
C9_BestMethodMaximal ==
    pc = "full_done" =>
        /\ results[1].best_method \in MethodSet
        /\ \A m \in 1..Len(methods) :
              ~RatLess(MethodRatio(image_files, MethodIndex(results[1].best_method)),
                       MethodRatio(image_files, m))

\* v4 strictly ahead of v2 and v3
C9_Witness ==
    /\ pc = "full_done"
    /\ results[1].best_method = "v4"
    /\ RatLess(MethodRatio(image_files, 1), MethodRatio(image_files, 3))
    /\ RatLess(MethodRatio(image_files, 2), MethodRatio(image_files, 3))

\* C10 as claimed: the best_method of the optimized consensus is a strategy of
\* highest ratio observations / contributed fields over the images processed.
C10_OptimizedBestMethodMaximal ==
    pc = "opt_done" =>
        \A m \in 1..Len(methods) :
            ~RatLess(MethodRatio(extracted, MethodIndex(results[1].best_method)),
                     MethodRatio(extracted, m))

\* C10 (amended): the optimized consensus reports the fixed default "v3" as
\* best_method, whatever the strategies contributed.
C10_OptimizedBestMethodDefault ==
    pc = "opt_done" => results[1].best_method = "v3"

\* v3 contributed nothing, v2 did, and v3 is reported
C10_Witness ==
    /\ pc = "opt_done"
    /\ MethodRatio(extracted, 2) = <<0, 1>>
    /\ RatLess(<<0, 1>>, MethodRatio(extracted, 1))
    /\ results[1].best_method = "v3"

\* two listings of the same files whose images agree, strategy by strategy, on
\* what is observed for field f
AgreeOn(files, others, f) ==
    /\ Len(files) = Len(others)
    /\ \A i \in 1..Len(files) :
          /\ files[i].file = others[i].file
          /\ \A m \in 1..3 : Observed(files[i], m, f) = Observed(others[i], m, f)

\* both analyses of the two folders have returned
Compared == pc \in {"full_done", "opt_done"} /\ other_results # <<>>

\* C11 (as stated): in the full and in the optimized consensus alike, two pools
\* that agree on the observations of one field get the same value, support
\* count, total and confidence for it, whatever the other fields hold.
C11_FieldsIndependentBothModes ==
    Compared =>
        \A f \in FieldSet :
            AgreeOn(image_files, other_files, f) =>
                results[1].field[f] = other_results[1].field[f]

\* C11 (amended): the same holds in the full consensus, and in the optimized
\* consensus whenever the two runs stop after the same number of images; the
\* point of early termination depends on all five fields.
C11_FieldsIndependent ==
    Compared =>
        \A f \in FieldSet :
            ( /\ AgreeOn(image_files, other_files, f)
              /\ \/ pc = "full_done"
                 \/ results[1].images_processed = other_results[1].images_processed )
            => results[1].field[f] = other_results[1].field[f]

\* an optimized run over two images, the pools agreeing on s_value and getting
\* different outcomes for b_value
C11_Witness ==
    /\ Compared
    /\ pc = "opt_done"
    /\ results[1].images_processed = 2
    /\ other_results[1].images_processed = 2
    /\ AgreeOn(image_files, other_files, "s_value")
    /\ results[1].field["s_value"].total > 1
    /\ results[1].field["s_value"] = other_results[1].field["s_value"]
    /\ results[1].field["b_value"] # other_results[1].field["b_value"]

\* the rank of a file name in the priority table, 999 for a name it does not know
RankOf(filename) ==
    CASE filename = "adaptive_binarized" -> 5
      [] filename = "gaussian_blur" -> 17
      [] filename = "processed_17" -> 19
      [] OTHER -> 999

\* C12: the optimized analysis ranks the candidates by the priority table (999 for
\* an unknown name); the ranked list is a permutation of the candidates in
\* non-decreasing rank, the sample is its first sample_size entries, the images
\* are processed in that order, and no image left out ranks strictly lower than a
\* selected one.
C12_PriorityOrder ==
    pc \in {"opt_loop", "opt_done"} =>
        LET ranked == prioritize_images_by_method(image_files)
            left_out == Range(image_files) \ Range(selected_files)
        IN  /\ Len(ranked) = Len(image_files)
            /\ Range(ranked) = Range(image_files)
            /\ \A i, j \in 1..Len(ranked) :
                   i < j => RankOf(ranked[i].file) <= RankOf(ranked[j].file)
            /\ Len(selected_files) =
                   (IF sample_size < Len(ranked) THEN sample_size ELSE Len(ranked))
            /\ \A i \in 1..Len(selected_files) : selected_files[i] = ranked[i]
            /\ extracted = SubSeq(selected_files, 1, images_processed)
            /\ \A u \in left_out : \A k \in 1..Len(selected_files) :
                   RankOf(u.file) >= RankOf(selected_files[k].file)

\* a listing that starts with a file of unknown name: the known one is selected
C12_Witness ==
    /\ pc = "opt_done"
    /\ Len(image_files) = 2
    /\ sample_size = 1
    /\ RankOf(image_files[1].file) = 999
    /\ RankOf(image_files[2].file) = 17
    /\ extracted = <<image_files[2]>>

\* the listing without the images cv2.imread cannot decode
Readable(files) == SelectSeq(files, LAMBDA im : im.readable)

\* what a strategy returns is the error marker, without mapped record
IsErrorMarker(result) ==
    "error" \in DOMAIN result /\ "mapped_result" \notin DOMAIN result

\* C13: an image that cannot be decoded makes each strategy return the error
\* marker, and in both consensus modes every field's value, support count, total
\* and confidence are what they would be were the unreadable images absent from
\* the pool.
C13_UnreadableAsAbsent ==
    /\ \A i \in 1..Len(image_files) :
           ~image_files[i].readable =>
               /\ IsErrorMarker(extract_lisa_data_v2(image_files[i]))
               /\ IsErrorMarker(extract_game_stat_v3(image_files[i]))
               /\ IsErrorMarker(extract_stat_v4(image_files[i]))
    /\ (pc = "full_done" /\ Readable(image_files) # <<>>) =>
           results[1].field = analyze_full(Readable(image_files)).field
    /\ (pc = "opt_done" /\ Readable(image_files) # <<>>) =>
           results[1].field = analyze_optimized(Readable(image_files), sample_size,
                                                confidence_threshold).field

\* a record of exactly the five fields
FiveFields(record) == DOMAIN record = FieldSet

\* what a strategy returns carries a mapped record of exactly the five fields
HasRecord(result) ==
    "mapped_result" \in DOMAIN result /\ FiveFields(result.mapped_result)

\* C14: for every image, decodable or not, with or without any field found, each
\* strategy and extract_stat_combined return without raising, and the record
\* returned has exactly the five fields (empty strings where nothing was found).
C14_ExtractionTotal ==
    /\ pc # "raised"
    /\ pc # "listed" =>
           \A i \in 1..Len(extracted) :
               /\ HasRecord(extract_lisa_data_v2(extracted[i]))
               /\ HasRecord(extract_game_stat_v3(extracted[i]))
               /\ HasRecord(extract_stat_v4(extracted[i]))
    /\ pc = "batch_done" =>
           \A i \in 1..Len(results) : FiveFields(results[i].final_result)

\* C15: when the extraction of an image raises during a consensus run, the run
\* goes on: it never ends with the exception, every other image of the region
\* (of the sample, in the optimized mode) is still processed unless the threshold
\* stops the run, and a consensus is returned for the region.
C15_FailureContained ==
    /\ pc # "raised"
    /\ pc = "full_done" => extracted = image_files
    /\ pc \in {"full_done", "opt_done"} => Len(results) = 1

\* the region folder holds an image that cv2.imread decodes
SomeReadable == \E i \in 1..Len(image_files) : image_files[i].readable

\* C16: an analysis, full or optimized, returns a consensus for the region if
\* and only if the region has at least one readable candidate image; a region
\* without any is skipped, and nothing else keeps a region from its result.
C16_ResultIffReadable ==
    /\ pc \in {"full_done", "opt_done"} => SomeReadable /\ Len(results) = 1
    /\ pc = "skipped" => ~SomeReadable /\ results = <<>>
    /\ pc = "raised" => ~SomeReadable

RunStarts(text) ==
    {i \in 1..Len(text) : text[i] \in Digit /\ (i = 1 \/ text[i - 1] \notin Digit)}

RunEnd(text, i) ==
    CHOOSE j \in i..Len(text) :
        /\ \A k \in i..j : text[k] \in Digit
        /\ j = Len(text) \/ text[j + 1] \notin Digit

\* token number n (from 1) of the text, as a Python string; '' when out of range
Token(text, n) ==
    LET starts == RunStarts(text)
        nth == {i \in starts : Cardinality({j \in starts : j <= i}) = n}
    IN  IF nth = {} THEN ""
        ELSE LET i == CHOOSE x \in nth : TRUE IN Str(SubSeq(text, i, RunEnd(text, i)))

TokenCount(text) == Cardinality(RunStarts(text))

\* the tokens of exactly three digits, by number
ThreeDigit(text) ==
    {n \in 1..TokenCount(text) :
        \E i \in RunStarts(text) :
            /\ Cardinality({j \in RunStarts(text) : j <= i}) = n
            /\ RunEnd(text, i) = i + 2}

\* the first token of exactly three digits
Pivot(text) == CHOOSE n \in ThreeDigit(text) : \A m \in ThreeDigit(text) : n <= m

\* the single-image extraction has returned for a folder of one text image
ParsedOne ==
    /\ pc = "batch_done"
    /\ Len(image_files) = 1
    /\ "text" \in DOMAIN image_files[1]

\* Method A has the b, s and t values of the tokens around the pivot
AroundPivot(text, v2_result) ==
    /\ v2_result.b_value = Token(text, Pivot(text) - 2)
    /\ v2_result.s_value = Token(text, Pivot(text) - 1)
    /\ v2_result.t_value = Token(text, Pivot(text) + 1)

\* C18 (as stated): whatever the number of digit-run tokens, when one of them has
\* exactly 3 digits Method A takes the first such as pivot and reads b_value two
\* tokens before it, s_value one before, t_value one after, each empty exactly
\* when there is no token at that place.
C18_PivotAnyLength ==
    ParsedOne =>
        LET text == image_files[1].text
        IN  ThreeDigit(text) # {} => AroundPivot(text, results[1].v2_result)

\* C18 (amended): the same for the texts of at least three digit-run tokens;
\* with fewer than three tokens Method A leaves b, s and t empty.
C18_PivotAtLeastThree ==
    ParsedOne =>
        LET text == image_files[1].text
        IN  /\ (ThreeDigit(text) # {} /\ TokenCount(text) >= 3) =>
                   AroundPivot(text, results[1].v2_result)
            /\ TokenCount(text) < 3 =>
                   /\ results[1].v2_result.b_value = ""
                   /\ results[1].v2_result.s_value = ""
                   /\ results[1].v2_result.t_value = ""

\* four tokens, the pivot third and a second 3-digit token after it
C18_Witness ==
    /\ ParsedOne
    /\ TokenCount(image_files[1].text) = 4
    /\ ThreeDigit(image_files[1].text) = {3, 4}
    /\ results[1].v2_result.b_value = "12"
    /\ results[1].v2_result.s_value = "1"
    /\ results[1].v2_result.t_value = "123"

\* the tokens Method C can take for people_count: three digits, 100 to 999
PeopleTokens(text) ==
    {n \in ThreeDigit(text) :
        \E i \in RunStarts(text) :
            Cardinality({j \in RunStarts(text) : j <= i}) = n /\ text[i] # "0"}

\* the people_count token Method C locates: the first of them
PeopleToken(text) == CHOOSE n \in PeopleTokens(text) : \A m \in PeopleTokens(text) : n <= m

\* what the line-by-line label scan of Method C finds for a label, '' if nothing
Labelled(text, patterns) == Str(FirstLabelled(split_lines(text), patterns))

\* C19: when the label scan of Method C leaves b_value, s_value or t_value empty
\* and a people_count token is located, each value the scan left empty is the
\* one positional inference gives: b the token two before the people_count
\* token, s the token just before it, t the token just after it, '' when there
\* is no such token.  Stated for the texts of at least three tokens, those on
\* which Method A infers by position.
C19_FallbackWhenAnyEmpty ==
    ParsedOne =>
        LET text == strip(image_files[1].text)
            v4_result == results[1].v4_result
        IN  (PeopleTokens(text) # {} /\ TokenCount(text) >= 3) =>
                /\ Labelled(text, b_patterns) = "" =>
                       v4_result.b_value = Token(text, PeopleToken(text) - 2)
                /\ Labelled(text, s_patterns) = "" =>
                       v4_result.s_value = Token(text, PeopleToken(text) - 1)
                /\ Labelled(text, t_patterns) = "" =>
                       v4_result.t_value = Token(text, PeopleToken(text) + 1)

\* the folder of the end-to-end scenario
Scenario == image_files = ScenarioImages

\* C20 (as stated): in the scenario the combined record of each of the three
\* images is b=12, s=34, t=56, people=123, dollar=1,234, and the consensus of
\* the region reports b_value 12 with confidence 100.
C20_ScenarioAllAgree ==
    /\ (Scenario /\ pc = "batch_done") =>
           \A i \in 1..3 : results[i].final_result = Mapped("12", "34", "56", "123", "1,234")
    /\ (Scenario /\ pc = "full_done") =>
           /\ results[1].field["b_value"].value = "12"
           /\ results[1].field["b_value"].confidence = <<100, 1>>

\* C20 (amended): the combined record of the first and of the third image is
\* b=12, s=34, t=56, people=123, dollar=1,234; the second text is one digit run,
\* its combined record has people_count 123 and nothing else; the consensus of
\* the region reports b_value 12 with support 4 of 6, confidence 200/3.
C20_Scenario ==
    /\ (Scenario /\ pc = "batch_done") =>
           /\ results[1].final_result = Mapped("12", "34", "56", "123", "1,234")
           /\ results[2].final_result = Mapped("", "", "", "123", "")
           /\ results[3].final_result = Mapped("12", "34", "56", "123", "1,234")
    /\ (Scenario /\ pc = "full_done") =>
           results[1].field["b_value"] =
               [value |-> "12", confidence |-> <<200, 3>>, count |-> 4, total |-> 6]

C20_Witness ==
    /\ Scenario
    /\ pc = "full_done"
    /\ Len(all_results) = 3
    /\ all_results[1].v2["b_value"] = "34"
    /\ all_results[2].v3["people_count"] = "123"
    /\ results[1].field["b_value"].value = "12"

\* the crop of a region among the crops on disk
CropOf(region) ==
    cropped_files[CHOOSE i \in 1..Len(cropped_files) : cropped_files[i].region = region]

\* no OCR call on the variants a record was read from has returned a digit
NoDigitsRead(record) ==
    \A key \in Range(record.processing_methods) :
        LET text == CropOf(record.region).text[key]
        IN  text = OcrFailure \/ \A i \in 1..Len(text) : text[i] \notin Digit

\* C21: on the monitoring path, the record of a crop on which OCR finds no digit
\* has each of its five fields equal to the empty string, and
\* run_simple_consensus_analysis reports confidence 0 for the region of the crop.
C21_AbsenceInBand ==
    /\ pc \in {"extracted", "analyzed"} =>
          \A i \in 1..Len(extracted_data) :
              NoDigitsRead(extracted_data[i]) =>
                  \A f \in FieldSet : extracted_data[i][f] = ""
    /\ pc = "analyzed" =>
          \A region \in DOMAIN consensus_results[1].results :
              NoDigitsRead(consensus_results[1].results[region].consensus) =>
                  consensus_results[1].results[region].confidence = <<0, 1>>

\* C23: process_image_optimized returns exactly the variants processed_17,
\* gaussian_blur and adaptive_binarized when no OpenCV call of it raises; when
\* one raises, the call returns and the dict returned holds the fallback.
C23_ThreeVariantsOrFallback ==
    pc \in {"processed", "raised"} =>
        IF \A i \in 1..Len(TryCalls(input_image)) :
               TryCalls(input_image)[i] \notin input_image.throws
        THEN /\ pc = "processed"
             /\ processed_images.keys = <<"processed_17", "gaussian_blur", "adaptive_binarized">>
        ELSE /\ pc = "processed"
             /\ "fallback" \in Range(processed_images.keys)

\* C22: every consensus result of either mode has, for each of the five fields,
\* 0 <= support_count <= total and 0 <= confidence <= 100, and value = "" iff
\* total = 0 iff support_count = 0 iff confidence = 0; the overall confidence is
\* within [0, 100] as well.
C22_FieldRecordWellFormed ==
    pc \in {"full_done", "opt_done"} =>
        /\ \A f \in FieldSet :
              LET fc == results[1].field[f]
              IN  /\ 0 <= fc.count /\ fc.count <= fc.total
                  /\ RatGeq(fc.confidence, <<0, 1>>) /\ RatGeq(<<100, 1>>, fc.confidence)
                  /\ (fc.value = "") <=> (fc.total = 0)
                  /\ (fc.total = 0) <=> (fc.count = 0)
                  /\ (fc.count = 0) <=> (fc.confidence[1] = 0)
        /\ RatGeq(results[1].confidence, <<0, 1>>)
        /\ RatGeq(<<100, 1>>, results[1].confidence)

\* an optimized result with an unobserved field next to an observed one
C22_Witness ==
    /\ pc = "opt_done"
    /\ \E f \in FieldSet :
          results[1].field[f] = [value |-> "", confidence |-> <<0, 1>>, count |-> 0, total |-> 0]
    /\ \E f \in FieldSet :
          /\ results[1].field[f].value # ""
          /\ results[1].field[f].count > 0
          /\ results[1].field[f].total >= results[1].field[f].count
    /\ RatLess(<<0, 1>>, results[1].confidence) /\ RatLess(results[1].confidence, <<100, 1>>)

\* field_values after the first k of the files have been processed
RECURSIVE CollectedFrom(_, _)
CollectedFrom(files, k) ==
    IF k = 0 THEN NoValues ELSE Collect(CollectedFrom(files, k - 1), files[k])

\* the optimized analysis has cut nothing off: every candidate was selected and
\* the running confidence stayed below the threshold after each image
NothingCutOff ==
    /\ pc = "opt_done"
    /\ sample_size >= Len(image_files)
    /\ \A k \in 1..Len(selected_files) :
           ~ThresholdReached(calculate_current_confidence(CollectedFrom(selected_files, k)),
                             confidence_threshold)

\* what the three strategies read on every image of the folder
AllEntries == [i \in 1..Len(image_files) |-> result_entry(image_files[i])]

\* at most one value has the highest frequency in seq
UniquePlurality(seq) ==
    Cardinality({v \in Range(seq) :
                    \A w \in Range(seq) : Occurrences(seq, w) <= Occurrences(seq, v)}) <= 1

\* C24 (as stated): when nothing is cut off, the optimized consensus reports for
\* every field the same value, support count, total and confidence as the full
\* consensus over the same images.
C24_OptimizedEqualsFull ==
    NothingCutOff =>
        \A full \in {analyze_full(image_files)} :
            \A f \in FieldSet : results[1].field[f] = full.field[f]

\* C24 (amended): when nothing is cut off, the optimized consensus reports for
\* every field the same support count, total and confidence as the full
\* consensus over the same images, and the same value whenever one value only
\* has the highest frequency; the overall confidence is the same too.
C24_OptimizedEqualsFullUpToTies ==
    NothingCutOff =>
        \A full \in {analyze_full(image_files)}, entries \in {AllEntries} :
            /\ \A f \in FieldSet :
                  LET o == results[1].field[f]
                  IN  /\ o.count = full.field[f].count
                      /\ o.total = full.field[f].total
                      /\ o.confidence = full.field[f].confidence
                      /\ UniquePlurality(AllValues(entries, f)) =>
                             o.value = full.field[f].value
            /\ results[1].confidence = full.confidence

\* two images listed against the priority order, both processed, and a tie for
\* b_value that the two modes decide differently
C24_Witness ==
    /\ NothingCutOff
    /\ Len(image_files) = 2
    /\ results[1].images_processed = 2
    /\ ~UniquePlurality(AllValues(AllEntries, "b_value"))
    /\ \E full \in {analyze_full(image_files).field["b_value"]} :
           /\ results[1].field["b_value"].value # full.value
           /\ results[1].field["b_value"].count = full.count
           /\ results[1].field["b_value"].total = 4

\* the image that the transform a descriptive name stands for makes of the
\* loaded image in the pipeline of process_image_comprehensive
VariantImage(name) ==
    LET bordered == remove_borders(rescale_image(<<>>))
        binarized == apply_binarization(bordered)
        denoised == remove_noise(binarized[1])
        morph_ops == apply_morphological_operations(denoised[1])
        enhanced == enhance_contrast(Append(bordered, "cvtColor"))
        produced == <<rescale_image(<<>>), bordered, bordered>>
                        \o binarized \o denoised \o morph_ops \o enhanced
    IN  produced[CHOOSE i \in 1..Len(image_types) : image_types[i] = name]

\* C25: every file that debug_single_image writes under a variant name holds the
\* image produced by that variant's transform (the file named rescaled holds the
\* rescaled image, otsu_binarized the Otsu output, and so on).
C25_NameEncodesVariant ==
    \A file \in debug_folder :
        file.name \in Range(image_types) => file.holds = VariantImage(file.name)

\* C26: in Method C the positional fallback only fills the fields that the label
\* scan left empty: an s_value or a t_value found by a label pattern is the
\* value reported, whatever the tokens of the text.
C26_FallbackKeepsLabelled ==
    ParsedOne =>
        LET text == strip(image_files[1].text)
            v4_result == results[1].v4_result
        IN  /\ Labelled(text, s_patterns) # "" =>
                   v4_result.s_value = Labelled(text, s_patterns)
            /\ Labelled(text, t_patterns) # "" =>
                   v4_result.t_value = Labelled(text, t_patterns)

\* C27: when the text has at least three digit-run tokens and none of exactly
\* three digits, Method A reports the first, second and third token as b_value,
\* s_value and t_value; when the text has fewer than three tokens it reports
\* the empty string for all three.
C27_FirstThreeWithoutPivot ==
    ParsedOne =>
        LET text == image_files[1].text
            v2_result == results[1].v2_result
        IN  /\ (TokenCount(text) >= 3 /\ ThreeDigit(text) = {}) =>
                   /\ v2_result.b_value = Token(text, 1)
                   /\ v2_result.s_value = Token(text, 2)
                   /\ v2_result.t_value = Token(text, 3)
            /\ TokenCount(text) < 3 =>
                   /\ v2_result.b_value = ""
                   /\ v2_result.s_value = ""
                   /\ v2_result.t_value = ""

\* the text '12 S34 T56': three tokens of two digits, read in order
C27_Witness ==
    /\ ParsedOne
    /\ TokenCount(image_files[1].text) = 3
    /\ ThreeDigit(image_files[1].text) = {}
    /\ results[1].v2_result.b_value = "12"
    /\ results[1].v2_result.s_value = "34"
    /\ results[1].v2_result.t_value = "56"

\* the full analysis has returned for both listings of the folder
BothListingsAnalyzed ==
    /\ pc = "full_done"
    /\ results # <<>>
    /\ other_results # <<>>

\* C28: the full consensus does not depend on the order in which the images are
\* listed: for every permutation of the listing each field's support count,
\* total and confidence and the overall confidence are the same, and each
\* field's value is the same whenever one value only has the highest frequency.
C28_ListingOrderIrrelevant ==
    BothListingsAnalyzed =>
        \A entries \in {AllEntries} :
            /\ \A f \in FieldSet :
                  LET listed == results[1].field[f]
                      permuted == other_results[1].field[f]
                  IN  /\ listed.count = permuted.count
                      /\ listed.total = permuted.total
                      /\ listed.confidence = permuted.confidence
                      /\ UniquePlurality(AllValues(entries, f)) =>
                             listed.value = permuted.value
            /\ results[1].confidence = other_results[1].confidence

\* two images listed in both orders: b_value is tied and the two listings decide
\* it differently with the same count, s_value has one plurality value
C28_Witness ==
    /\ BothListingsAnalyzed
    /\ Len(image_files) = 2
    /\ other_files # image_files
    /\ results[1].field["b_value"].value # other_results[1].field["b_value"].value
    /\ results[1].field["b_value"].count = 1
    /\ other_results[1].field["b_value"].count = 1
    /\ results[1].field["s_value"].value = "34"
    /\ other_results[1].field["s_value"].value = "34"
    /\ results[1].field["s_value"].count = 2

\* C29: the running confidence that decides whether to stop is the confidence
\* finally reported: after every prefix of the selected images
\* _calculate_current_confidence of the pool is the overall confidence that
\* _calculate_consensus_from_values computes from the same pool, so an
\* optimized consensus returned before all the selected images were processed
\* reports an overall confidence of at least confidence_threshold.
C29_RunningIsReported ==
    /\ pc \in {"opt_loop", "opt_done"} =>
           calculate_current_confidence(field_values)
               = calculate_consensus_from_values(field_values).confidence
    /\ (pc = "opt_done" /\ results[1].images_processed < Len(selected_files)) =>
           RatGeq(results[1].confidence, <<confidence_threshold, 1>>)

\* an early return after the first of two selected images, with a confidence
\* that is not the full 100
C29_Witness ==
    /\ pc = "opt_done"
    /\ Len(selected_files) = 2
    /\ results[1].images_processed = 1
    /\ confidence_threshold > 0
    /\ RatGeq(results[1].confidence, <<confidence_threshold, 1>>)
    /\ results[1].confidence # <<100, 1>>
    /\ calculate_current_confidence(field_values) = results[1].confidence

\* the number of entries of a list of performance_data that pass n has made
EntriesOf(entries, n) == Cardinality({i \in 1..Len(entries) : entries[i].iteration = n})

\* C30: an exception in a step of a pass does not end the loop: every pass
\* advances the iteration counter by one and is recorded as one entry of
\* performance_data['iterations'] or as one entry of performance_data['errors'],
\* never both; total_captures is the number of entries of iterations; and the
\* browser is closed once the loop is left.
C30_EveryPassRecordedOnce ==
    pc \in {"monitoring", "monitor_done"} =>
        /\ \A n \in 1..(iteration - 1) :
               EntriesOf(performance_data.iterations, n)
                   + EntriesOf(performance_data.errors, n) = 1
        /\ Len(performance_data.iterations) + Len(performance_data.errors) <= iteration - 1
        /\ performance_data.total_captures = Len(performance_data.iterations)
        /\ pc = "monitor_done" => browser = "closed"

====
